---- MODULE Spec2Model ----
(***************************************************************************)
(* cloud-browser-server: BrowserSession (one CDP connection per browser    *)
(* token, multiplexed over flattened page sessions) and SessionManager     *)
(* (the token -> session registry).                                        *)
(*                                                                         *)
(* Node runs one handler at a time; a handler gives up control only at an  *)
(* await.  Every action below is therefore one synchronous stretch of      *)
(* code: from the invocation of a handler (or from the arrival of the CDP  *)
(* reply a task awaits) up to the next await, where the next CDP command   *)
(* is written to the WebSocket.  Commands and replies travel over one      *)
(* WebSocket, so the browser answers them in the order they were sent:     *)
(* wire is that FIFO, and the task that awaits its head is the next one    *)
(* to resume.                                                              *)
(***************************************************************************)
EXTENDS Integers, Sequences, FiniteSets, TLC

(* ------------------------------ bounds --------------------------------- *)
MaxTargets == 2
MaxSids == 3
MaxTasks == 2
MaxSessions == 3
MaxClients == 4
MaxStops == 1
MaxPushes == 1

Null == 0
TargetIds == 1..MaxTargets
TaskIds == 1..MaxTasks
ViewerIds == {"v1"}
ApiIds == {"a1"}
Sockets == {"s1", "s2"}
Tokens == {"T1"}
NoToken == "none"
SessionIds == 1..MaxSessions
ClientIds == 1..MaxClients

VARIABLES
  (* BrowserSession fields *)
  browserClient,      \* TRUE when this.browserClient holds a CDP client
  sessionId,          \* this.sessionId (Null or a CDP session id)
  targetId,           \* this.targetId (Null or a target id)
  viewerClients,      \* this.viewerClients
  apiClients,         \* this.apiClients
  screencastStarted,  \* this.screencastStarted
  listening,          \* TRUE once connectToBrowser registered the target listeners
  (* async call frames of the session and the commands they await *)
  tasks,
  wire,
  phase,              \* "new", "live" (registered in sessionsByToken), "gone"
  (* the remote browser *)
  transport,          \* "none", "open", "closed"
  targets,            \* live page targets
  blank,              \* the live page targets whose url is about:blank
  front,              \* the page target whose document.visibilityState is "visible"
  attached,           \* CDP sessions attached and not detached: [sid, target, by]
  nextSid,
  nextTarget,
  cdpError,           \* some CDP command of this session was answered with an error
  (* SessionManager (registry specification) *)
  sessionsByToken, clientsBySocketId, socketTokenMap,
  clientType, clientSession, clientSocket, nextClient,
  sess, nextSession, conn, job,
  (* what the browser streams and what the clients and the page receive *)
  casting,            \* the CDP sessions with a running screencast (browser side)
  sent,               \* the CDP commands written by the observed operation, in order
  emitted,            \* the events delivered to the viewers, in order
  replies,            \* the callbacks answered to the requesting clients, in order
  (* keyboard and request-reply actions *)
  pressedModifiers,   \* this.pressedModifiers
  call,               \* the async call frame of the input or request-reply action
  keysDown,           \* the modifier keys each page session has seen go down and not up
  script,             \* the calls the clients are still to make, in order
  done,               \* the calls made so far, in order
  (* CDP events *)
  currentUrl,         \* this.currentUrl
  received,           \* the CDP events the transport has delivered, in order
  (* page snapshots *)
  axTree,             \* the nodes handed to compressAXTreeToText
  snapshot,           \* the compressed snapshot, line by line, once taken
  (* BrowserManager (browser pool specification) *)
  browserMap,         \* the tokens registered in browserMap
  running,            \* the tokens whose browser process is running
  poolCalls,          \* the start() and stop() calls, with their outcome
  nextToken           \* stands for the next randomUUID()

sessionVars == <<browserClient, sessionId, targetId, viewerClients, apiClients,
                 screencastStarted, listening, tasks, wire, phase, transport, targets,
                 blank, front, attached, nextSid, nextTarget, cdpError>>
registryVars == <<sessionsByToken, clientsBySocketId, socketTokenMap, clientType,
                  clientSession, clientSocket, nextClient, sess, nextSession, conn, job>>
traceVars == <<casting, sent, emitted, replies>>
keyVars == <<pressedModifiers, call, keysDown, script, done>>
eventVars == <<currentUrl, received>>
snapVars == <<axTree, snapshot>>
poolVars == <<browserMap, running, poolCalls, nextToken>>
auxVars == <<traceVars, keyVars, eventVars, snapVars, poolVars>>
vars == <<sessionVars, registryVars, auxVars>>

(* ------------------- async call frames and CDP calls ------------------- *)
Idle == [op |-> "idle", pc |-> "idle", arg |-> Null, cand |-> <<>>,
         fallback |-> Null, tmp |-> Null, vis |-> FALSE]

Call(t, m, sid, tgt) == [task |-> t, method |-> m, sid |-> sid, target |-> tgt]

\* the frame T suspends at await pc, having written command c to the WebSocket
Goto(T, pc, c) == [task |-> [T EXCEPT !.pc = pc], calls |-> <<c>>]

\* the frame returns to the event loop
Finished == [task |-> Idle, calls |-> <<>>]

FreeTasks == {t \in TaskIds : tasks[t].op = "idle"}

Busy == {t \in TaskIds : tasks[t].op # "idle"}

FirstOf(S) == CHOOSE x \in S : \A y \in S : x <= y

\* ascending sequence of the elements of a set of target ids
RECURSIVE Ordered(_)
Ordered(S) == IF S = {} THEN <<>> ELSE <<FirstOf(S)>> \o Ordered(S \ {FirstOf(S)})

(* ----------------------------- the browser ----------------------------- *)
AttachedSids == {a.sid : a \in attached}

\* does the browser answer command c with a result (TRUE) or with an error
BrowserOk(c) ==
  CASE c.method = "connect" -> TRUE
    [] transport # "open" -> FALSE
    [] c.method \in {"Target.setDiscoverTargets", "Target.getTargets",
                     "Target.createTarget", "close"} -> TRUE
    [] c.method \in {"Target.attachToTarget", "Target.activateTarget"} ->
         c.target \in targets
    [] c.method = "Target.detachFromTarget" -> c.sid \in AttachedSids
    [] OTHER -> c.sid \in AttachedSids

\* the effect of command c on the browser
BrowserStep(c) ==
  /\ cdpError' = (cdpError \/ ~BrowserOk(c))
  /\ CASE c.method = "connect" ->
            /\ transport' = "open"
            /\ UNCHANGED <<targets, blank, front, attached, nextSid, nextTarget>>
       [] c.method = "close" /\ BrowserOk(c) ->
            /\ transport' = "closed"
            /\ attached' = {}
            /\ UNCHANGED <<targets, blank, front, nextSid, nextTarget>>
       [] c.method = "Target.attachToTarget" /\ BrowserOk(c) ->
            /\ nextSid <= MaxSids
            /\ attached' = attached \cup
                 {[sid |-> nextSid, target |-> c.target, by |-> tasks[c.task].pc]}
            /\ nextSid' = nextSid + 1
            /\ UNCHANGED <<transport, targets, blank, front, nextTarget>>
       [] c.method = "Target.detachFromTarget" /\ BrowserOk(c) ->
            /\ attached' = {a \in attached : a.sid # c.sid}
            /\ UNCHANGED <<transport, targets, blank, front, nextSid, nextTarget>>
       [] c.method = "Target.activateTarget" /\ BrowserOk(c) ->
            /\ front' = c.target
            /\ UNCHANGED <<transport, targets, blank, attached, nextSid, nextTarget>>
       [] c.method = "Target.createTarget" /\ BrowserOk(c) ->
            /\ nextTarget <= MaxTargets
            /\ targets' = targets \cup {nextTarget}
            /\ blank' = blank \cup {nextTarget}
            /\ front' = nextTarget
            /\ nextTarget' = nextTarget + 1
            /\ UNCHANGED <<transport, attached, nextSid>>
       [] OTHER ->
            UNCHANGED <<transport, targets, blank, front, attached, nextSid, nextTarget>>

(* ------------- BrowserSession: synchronous stretches of code ----------- *)
\* what follows switchToPage in its caller: the client handler is done, a
\* target listener goes on to emitPageList()
AfterSwitch(t, T, bc) ==
  IF T.op = "switchToPage" THEN Finished
  ELSE IF bc THEN Goto(T, "h_getTargets", Call(t, "Target.getTargets", Null, Null))
  ELSE Finished

\* switchToPage: emit pageSwitched, await emitPageList()
SwitchTail(t, T, bc) ==
  IF bc THEN Goto(T, "sw_getTargets", Call(t, "Target.getTargets", Null, Null))
  ELSE AfterSwitch(t, T, bc)

pushInitialFrame(t, T, bc, sid, viewers) ==
  IF sid = Null \/ viewers = {} THEN SwitchTail(t, T, bc)
  ELSE IF bc THEN Goto(T, "sw_captureScreenshot", Call(t, "Page.captureScreenshot", sid, Null))
  ELSE SwitchTail(t, T, bc)

\* connectToPage returned normally to connectToBrowser or to switchToPage
AfterConnectToPage(t, T, bc, sid, viewers) ==
  IF T.op = "connectToBrowser"
  THEN IF bc THEN Goto(T, "cb_getTargets", Call(t, "Target.getTargets", Null, Null))
       ELSE Finished
  ELSE pushInitialFrame(t, T, bc, sid, viewers)

\* an exception reaches the catch of connectToBrowser or of switchToPage
Thrown(t, T, bc) ==
  IF T.op = "connectToBrowser" THEN Finished ELSE AfterSwitch(t, T, bc)

\* this.send(m) inside connectToPage: throws unless browserClient and sessionId are set
send(t, T, pc, m, bc, sid) ==
  IF bc /\ sid # Null THEN Goto(T, pc, Call(t, m, sid, Null)) ELSE Thrown(t, T, bc)

\* connectToPage, lines 236-239: start the screencast when there are viewers
StartScreencastInPage(t, T, bc, sid, sc, viewers) ==
  IF viewers # {} /\ sid # Null /\ ~sc /\ bc
  THEN Goto(T, "cp_startScreencast", Call(t, "Page.startScreencast", sid, Null))
  ELSE AfterConnectToPage(t, T, bc, sid, viewers)

connectToPage(t, T, tgt, bc) ==
  IF ~bc THEN Thrown(t, T, bc)
  ELSE Goto([T EXCEPT !.arg = tgt], "cp_attachToTarget",
            Call(t, "Target.attachToTarget", Null, tgt))

\* a switch that attaches the new page without bringing it to the front
ActivateTargetSkipped(t, T, bc) == connectToPage(t, T, T.arg, bc)

ActivateTarget(t, T, bc) ==
  IF bc THEN Goto(T, "sw_activateTarget", Call(t, "Target.activateTarget", Null, T.arg))
  ELSE connectToPage(t, T, T.arg, bc)

\* switchToPage(tgt) up to its first await
switchToPage(t, T, tgt) ==
  LET T1 == [T EXCEPT !.arg = tgt] IN
  IF tgt = targetId THEN AfterSwitch(t, T1, browserClient)
  ELSE IF sessionId # Null /\ browserClient
       THEN Goto(T1, "sw_stopScreencast", Call(t, "Page.stopScreencast", sessionId, Null))
       ELSE ActivateTarget(t, T1, browserClient)

\* a listener that announces the page without switching to it
TargetCreatedListenerNoSwitch(h, tgt) == Finished

\* the Target.targetCreated listener (type page) up to its first await
TargetCreatedListener(h, tgt) ==
  IF browserClient THEN switchToPage(h, [Idle EXCEPT !.op = "targetCreated"], tgt)
  ELSE Finished

\* a listener that announces the closed page and never replaces the active one
TargetDestroyedListenerListOnly(h, tgt) ==
  IF ~browserClient THEN Finished
  ELSE Goto([Idle EXCEPT !.op = "targetDestroyed", !.arg = tgt], "h_getTargets",
            Call(h, "Target.getTargets", Null, Null))

\* the Target.targetDestroyed listener up to its first await
TargetDestroyedListener(h, tgt) ==
  LET T == [Idle EXCEPT !.op = "targetDestroyed", !.arg = tgt] IN
  IF ~browserClient THEN Finished
  ELSE IF targetId = tgt
       THEN Goto(T, "td_getTargets", Call(h, "Target.getTargets", Null, Null))
       ELSE Goto(T, "h_getTargets", Call(h, "Target.getTargets", Null, Null))

\* an election that visits no candidate and goes to the fallbacks at once
findActiveTargetFallback(t, T, cand, bc) ==
  LET T1 == [T EXCEPT !.cand = <<>>, !.tmp = Null, !.vis = FALSE] IN
  IF T.fallback # Null THEN connectToPage(t, T1, T.fallback, bc)
  ELSE IF bc THEN Goto(T1, "cb_createTarget", Call(t, "Target.createTarget", Null, Null))
  ELSE Finished

\* findActiveTarget: the next candidate of the loop, or the fallbacks after it,
\* followed by connectToBrowser lines 317-326
findActiveTargetLoop(t, T, cand, bc) ==
  LET T1 == [T EXCEPT !.cand = cand, !.tmp = Null, !.vis = FALSE] IN
  IF cand # <<>> /\ bc
  THEN Goto(T1, "fa_attachToTarget", Call(t, "Target.attachToTarget", Null, Head(cand)))
  ELSE IF T.fallback # Null THEN connectToPage(t, T1, T.fallback, bc)
  ELSE IF bc THEN Goto(T1, "cb_createTarget", Call(t, "Target.createTarget", Null, Null))
  ELSE Finished

\* disconnect(), lines 1391-1399, up to the await of close()
disconnectClose(t, T, bc) ==
  IF bc THEN Goto(T, "dc_close", Call(t, "close", Null, Null)) ELSE Finished

\* disconnect() up to its first await
disconnect(t) ==
  LET T == [Idle EXCEPT !.op = "disconnect"] IN
  IF sessionId # Null /\ browserClient
  THEN Goto(T, "dc_stopScreencast", Call(t, "Page.stopScreencast", sessionId, Null))
  ELSE disconnectClose(t, T, browserClient)

(* --------------------------- initial state ----------------------------- *)
CallIdle == [op |-> "idle", pc |-> "idle", key |-> "", m |-> {}, more |-> FALSE,
             n |-> 0, late |-> FALSE]

KeysIdle ==
  /\ pressedModifiers = {} /\ call = CallIdle /\ keysDown = {}
  /\ script = <<>> /\ done = <<>>

TraceIdle == casting = {} /\ sent = <<>> /\ emitted = <<>> /\ replies = <<>>

EventsIdle == currentUrl = Null /\ received = <<>>

SnapIdle == axTree = <<>> /\ snapshot = [taken |-> FALSE, lines |-> <<>>]

PoolIdle ==
  /\ browserMap = {} /\ running = {}
  /\ poolCalls = <<>> /\ nextToken = 1

AuxIdle == TraceIdle /\ KeysIdle /\ EventsIdle /\ SnapIdle /\ PoolIdle

RegistryIdle ==
  /\ sessionsByToken = <<>> /\ clientsBySocketId = <<>> /\ socketTokenMap = <<>>
  /\ clientType = <<>> /\ clientSession = <<>> /\ clientSocket = <<>>
  /\ nextClient = 1 /\ sess = <<>> /\ nextSession = 1 /\ conn = <<>> /\ job = <<>>

\* a constructed BrowserSession (lines 13-27); the browser of the pool has no
\* page or one page, blank or not, in front or not
Init ==
  /\ browserClient = FALSE /\ sessionId = Null /\ targetId = Null
  /\ viewerClients = {} /\ apiClients = {} /\ screencastStarted = FALSE
  /\ listening = FALSE
  /\ tasks = [t \in TaskIds |-> Idle] /\ wire = <<>> /\ phase = "new"
  /\ transport = "none"
  /\ \E n \in 0..1 :
       /\ targets = 1..n
       /\ nextTarget = n + 1
       /\ blank \in SUBSET (1..n)
       /\ front \in (1..n) \cup {Null}
  /\ attached = {} /\ nextSid = 1 /\ cdpError = FALSE
  /\ RegistryIdle
  /\ AuxIdle

(* ------------------- clients come and go (SessionManager) -------------- *)
\* the cleanup at the end of disconnect(), lines 1401-1405, and the
\* sessionsByToken.delete that follows it in removeClientFromSession
Cleared ==
  /\ targetId' = Null /\ screencastStarted' = FALSE
  /\ viewerClients' = {} /\ apiClients' = {} /\ phase' = "gone"

\* connectBrowser, lines 83-92: new session, addClient, connectToBrowser up to
\* the await of CDP()
CreateSession(c) ==
  /\ phase = "new"
  /\ viewerClients' = (IF c \in ViewerIds THEN {c} ELSE {})
  /\ apiClients' = (IF c \in ApiIds THEN {c} ELSE {})
  /\ phase' = "live"
  /\ tasks' = [tasks EXCEPT ![1] = [Idle EXCEPT !.op = "connectToBrowser", !.pc = "cb_open"]]
  /\ wire' = Append(wire, Call(1, "connect", Null, Null))
  /\ UNCHANGED <<browserClient, sessionId, targetId, screencastStarted, listening,
                 transport, targets, blank, front, attached, nextSid, nextTarget, cdpError>>
  /\ UNCHANGED registryVars

\* addClient (connectBrowser, lines 69-73, reuses the registered session);
\* a viewer runs tryStartScreencast up to its await
addClient(c) ==
  /\ phase = "live"
  /\ c \notin viewerClients \cup apiClients
  /\ LET start == c \in ViewerIds /\ ~screencastStarted /\ sessionId # Null /\ browserClient
     IN /\ start => FreeTasks # {}
        /\ viewerClients' = (IF c \in ViewerIds THEN viewerClients \cup {c} ELSE viewerClients)
        /\ apiClients' = (IF c \in ApiIds THEN apiClients \cup {c} ELSE apiClients)
        /\ IF start
           THEN LET h == FirstOf(FreeTasks) IN
                /\ tasks' = [tasks EXCEPT ![h] =
                     [Idle EXCEPT !.op = "tryStartScreencast", !.pc = "ts_startScreencast"]]
                /\ wire' = Append(wire, Call(h, "Page.startScreencast", sessionId, Null))
           ELSE UNCHANGED <<tasks, wire>>
  /\ UNCHANGED <<browserClient, sessionId, targetId, screencastStarted, listening, phase,
                 transport, targets, blank, front, attached, nextSid, nextTarget, cdpError>>
  /\ UNCHANGED registryVars

\* removeClientFromSession, lines 107-112: removeClient (a last viewer runs
\* tryStopScreencast up to its await), and disconnect() up to its first await
\* when no client is left
removeClient(c) ==
  /\ phase = "live"
  /\ c \in viewerClients \cup apiClients
  /\ LET viewers == viewerClients \ {c}
         apis == apiClients \ {c}
         stop == /\ c \in viewerClients /\ viewers = {}
                 /\ screencastStarted /\ sessionId # Null /\ browserClient
         last == viewers \cup apis = {}
         need == (IF stop THEN 1 ELSE 0) + (IF last /\ browserClient THEN 1 ELSE 0)
     IN /\ Cardinality(FreeTasks) >= need
        /\ LET h1 == FirstOf(FreeTasks)
               stopTask == [Idle EXCEPT !.op = "tryStopScreencast", !.pc = "tp_stopScreencast"]
               tasks1 == IF stop THEN [tasks EXCEPT ![h1] = stopTask] ELSE tasks
               wire1 == IF stop
                        THEN Append(wire, Call(h1, "Page.stopScreencast", sessionId, Null))
                        ELSE wire
               h2 == FirstOf({t \in TaskIds : tasks1[t].op = "idle"})
               r == IF last /\ browserClient THEN disconnect(h2) ELSE Finished
           IN /\ tasks' = (IF last /\ browserClient THEN [tasks1 EXCEPT ![h2] = r.task]
                           ELSE tasks1)
              /\ wire' = wire1 \o r.calls
              /\ IF last /\ ~browserClient
                 THEN Cleared
                 ELSE /\ viewerClients' = viewers /\ apiClients' = apis
                      /\ UNCHANGED <<targetId, screencastStarted, phase>>
  /\ UNCHANGED <<browserClient, sessionId, listening,
                 transport, targets, blank, front, attached, nextSid, nextTarget, cdpError>>
  /\ UNCHANGED registryVars

\* handleSwitchPage of a bound client: switchToPage(tgt) up to its first await
ClientSwitchToPage(tgt) ==
  /\ phase = "live"
  /\ viewerClients \cup apiClients # {}
  /\ FreeTasks # {}
  /\ LET h == FirstOf(FreeTasks)
         r == switchToPage(h, [Idle EXCEPT !.op = "switchToPage"], tgt)
     IN /\ tasks' = [tasks EXCEPT ![h] = r.task]
        /\ wire' = wire \o r.calls
  /\ UNCHANGED <<browserClient, sessionId, targetId, viewerClients, apiClients,
                 screencastStarted, listening, phase,
                 transport, targets, blank, front, attached, nextSid, nextTarget, cdpError>>
  /\ UNCHANGED registryVars

(* ------------------ the browser's own target lifecycle ----------------- *)
\* a page opens a window: Target.targetCreated reaches the listener
EnvTargetCreated ==
  /\ transport = "open"
  /\ nextTarget <= MaxTargets
  /\ listening => FreeTasks # {}
  /\ targets' = targets \cup {nextTarget}
  /\ front' = nextTarget
  /\ nextTarget' = nextTarget + 1
  /\ IF listening
     THEN LET h == FirstOf(FreeTasks)
              r == TargetCreatedListener(h, nextTarget)
          IN /\ tasks' = [tasks EXCEPT ![h] = r.task]
             /\ wire' = wire \o r.calls
     ELSE UNCHANGED <<tasks, wire>>
  /\ UNCHANGED <<browserClient, sessionId, targetId, viewerClients, apiClients,
                 screencastStarted, listening, phase, transport, blank, attached,
                 nextSid, cdpError>>
  /\ UNCHANGED registryVars

\* a page is closed: its CDP sessions end, Target.targetDestroyed reaches the listener
EnvTargetDestroyed(tgt) ==
  /\ transport = "open"
  /\ tgt \in targets
  /\ listening => FreeTasks # {}
  /\ targets' = targets \ {tgt}
  /\ blank' = blank \ {tgt}
  /\ front' = (IF front = tgt THEN Null ELSE front)
  /\ attached' = {a \in attached : a.target # tgt}
  /\ IF listening
     THEN LET h == FirstOf(FreeTasks)
              r == TargetDestroyedListener(h, tgt)
          IN /\ tasks' = [tasks EXCEPT ![h] = r.task]
             /\ wire' = wire \o r.calls
     ELSE UNCHANGED <<tasks, wire>>
  /\ UNCHANGED <<browserClient, sessionId, targetId, viewerClients, apiClients,
                 screencastStarted, listening, phase, transport, nextSid, nextTarget,
                 cdpError>>
  /\ UNCHANGED registryVars

(* ----------------- continuations: a CDP reply arrives ------------------ *)
\* the browser answers the oldest command; the task t that awaits it at pc resumes
Resume(t, pc) ==
  /\ wire # <<>>
  /\ Head(wire).task = t
  /\ tasks[t].pc = pc
  /\ BrowserStep(Head(wire))

Ok == BrowserOk(Head(wire))

\* the task runs to its next await (or to its end)
Settle(t, r) ==
  /\ tasks' = [tasks EXCEPT ![t] = r.task]
  /\ wire' = Tail(wire) \o r.calls

\* connectToBrowser, lines 252-257
OnOpen(t) ==
  /\ Resume(t, "cb_open")
  /\ browserClient' = TRUE
  /\ Settle(t, Goto(tasks[t], "cb_setDiscoverTargets",
                    Call(t, "Target.setDiscoverTargets", Null, Null)))
  /\ UNCHANGED <<sessionId, targetId, viewerClients, apiClients, screencastStarted,
                 listening, phase>>
  /\ UNCHANGED registryVars

\* connectToBrowser, lines 257-315, and findActiveTarget, lines 160-162
OnSetDiscoverTargets(t) ==
  /\ Resume(t, "cb_setDiscoverTargets")
  /\ IF Ok /\ browserClient
     THEN /\ listening' = TRUE
          /\ Settle(t, Goto(tasks[t], "fa_getTargets", Call(t, "Target.getTargets", Null, Null)))
     ELSE /\ Settle(t, Finished)
          /\ UNCHANGED listening
  /\ UNCHANGED <<browserClient, sessionId, targetId, viewerClients, apiClients,
                 screencastStarted, phase>>
  /\ UNCHANGED registryVars

\* findActiveTarget, lines 162-170 and 195-201
OnElectGetTargets(t) ==
  /\ Resume(t, "fa_getTargets")
  /\ LET pages == Ordered(targets \ blank)
         fb == IF pages # <<>> THEN pages[1]
               ELSE IF targets # {} THEN FirstOf(targets) ELSE Null
     IN Settle(t, IF Ok
                  THEN findActiveTargetLoop(t, [tasks[t] EXCEPT !.fallback = fb], pages,
                                            browserClient)
                  ELSE Finished)
  /\ UNCHANGED <<browserClient, sessionId, targetId, viewerClients, apiClients,
                 screencastStarted, listening, phase>>
  /\ UNCHANGED registryVars

\* findActiveTarget, lines 170-175
OnElectAttach(t) ==
  /\ Resume(t, "fa_attachToTarget")
  /\ LET T == tasks[t] IN
     Settle(t, IF Ok /\ browserClient
               THEN Goto([T EXCEPT !.tmp = nextSid], "fa_runtimeEnable",
                         Call(t, "Runtime.enable", nextSid, Null))
               ELSE findActiveTargetLoop(t, T, Tail(T.cand), browserClient))
  /\ UNCHANGED <<browserClient, sessionId, targetId, viewerClients, apiClients,
                 screencastStarted, listening, phase>>
  /\ UNCHANGED registryVars

\* findActiveTarget, lines 175-181
OnElectRuntimeEnable(t) ==
  /\ Resume(t, "fa_runtimeEnable")
  /\ LET T == tasks[t] IN
     Settle(t, IF Ok /\ browserClient
               THEN Goto(T, "fa_evaluate", Call(t, "Runtime.evaluate", T.tmp, Null))
               ELSE findActiveTargetLoop(t, T, Tail(T.cand), browserClient))
  /\ UNCHANGED <<browserClient, sessionId, targetId, viewerClients, apiClients,
                 screencastStarted, listening, phase>>
  /\ UNCHANGED registryVars

\* findActiveTarget, lines 178-184
OnElectEvaluate(t) ==
  /\ Resume(t, "fa_evaluate")
  /\ LET T == tasks[t] IN
     Settle(t, IF Ok /\ browserClient
               THEN Goto([T EXCEPT !.vis = (Head(T.cand) = front)], "fa_detachFromTarget",
                         Call(t, "Target.detachFromTarget", T.tmp, Null))
               ELSE findActiveTargetLoop(t, T, Tail(T.cand), browserClient))
  /\ UNCHANGED <<browserClient, sessionId, targetId, viewerClients, apiClients,
                 screencastStarted, listening, phase>>
  /\ UNCHANGED registryVars

\* findActiveTarget, lines 184-193, and connectToBrowser, lines 315-318
OnElectDetach(t) ==
  /\ Resume(t, "fa_detachFromTarget")
  /\ LET T == tasks[t] IN
     Settle(t, IF Ok /\ T.vis
               THEN connectToPage(t, T, Head(T.cand), browserClient)
               ELSE findActiveTargetLoop(t, T, Tail(T.cand), browserClient))
  /\ UNCHANGED <<browserClient, sessionId, targetId, viewerClients, apiClients,
                 screencastStarted, listening, phase>>
  /\ UNCHANGED registryVars

\* connectToBrowser, lines 321-324: the browser announces the new target to the
\* targetCreated listener before it answers Target.createTarget
OnCreateFirstTarget(t) ==
  /\ Resume(t, "cb_createTarget")
  /\ IF Ok
     THEN /\ FreeTasks # {}
          /\ LET h == FirstOf(FreeTasks)
                 l == TargetCreatedListener(h, nextTarget)
                 r == connectToPage(t, tasks[t], nextTarget, browserClient)
             IN /\ tasks' = [tasks EXCEPT ![h] = l.task, ![t] = r.task]
                /\ wire' = Tail(wire) \o l.calls \o r.calls
     ELSE Settle(t, Finished)
  /\ UNCHANGED <<browserClient, sessionId, targetId, viewerClients, apiClients,
                 screencastStarted, listening, phase>>
  /\ UNCHANGED registryVars

\* connectToPage, lines 213-222
OnAttachToTarget(t) ==
  /\ Resume(t, "cp_attachToTarget")
  /\ LET T == tasks[t] IN
     IF Ok
     THEN /\ sessionId' = nextSid
          /\ targetId' = T.arg
          /\ Settle(t, send(t, T, "cp_pageEnable", "Page.enable", browserClient, nextSid))
     ELSE /\ Settle(t, Thrown(t, T, browserClient))
          /\ UNCHANGED <<sessionId, targetId>>
  /\ UNCHANGED <<browserClient, viewerClients, apiClients, screencastStarted, listening, phase>>
  /\ UNCHANGED registryVars

\* connectToPage, lines 222-223
OnPageEnable(t) ==
  /\ Resume(t, "cp_pageEnable")
  /\ LET T == tasks[t] IN
     Settle(t, IF Ok
               THEN send(t, T, "cp_runtimeEnable", "Runtime.enable", browserClient, sessionId)
               ELSE Thrown(t, T, browserClient))
  /\ UNCHANGED <<browserClient, sessionId, targetId, viewerClients, apiClients,
                 screencastStarted, listening, phase>>
  /\ UNCHANGED registryVars

\* connectToPage, lines 223-230
OnRuntimeEnable(t) ==
  /\ Resume(t, "cp_runtimeEnable")
  /\ LET T == tasks[t] IN
     Settle(t, IF Ok
               THEN send(t, T, "cp_getFrameTree", "Page.getFrameTree", browserClient, sessionId)
               ELSE Thrown(t, T, browserClient))
  /\ UNCHANGED <<browserClient, sessionId, targetId, viewerClients, apiClients,
                 screencastStarted, listening, phase>>
  /\ UNCHANGED registryVars

\* connectToPage, lines 230-234
OnGetFrameTree(t) ==
  /\ Resume(t, "cp_getFrameTree")
  /\ LET T == tasks[t] IN
     Settle(t, IF Ok
               THEN send(t, T, "cp_setDeviceMetricsOverride",
                         "Emulation.setDeviceMetricsOverride", browserClient, sessionId)
               ELSE Thrown(t, T, browserClient))
  /\ UNCHANGED <<browserClient, sessionId, targetId, viewerClients, apiClients,
                 screencastStarted, listening, phase>>
  /\ UNCHANGED registryVars

\* connectToPage, lines 234-239, and startScreencast, lines 1348-1352
OnSetDeviceMetricsOverride(t) ==
  /\ Resume(t, "cp_setDeviceMetricsOverride")
  /\ LET T == tasks[t] IN
     Settle(t, IF Ok
               THEN StartScreencastInPage(t, T, browserClient, sessionId, screencastStarted,
                                          viewerClients)
               ELSE Thrown(t, T, browserClient))
  /\ UNCHANGED <<browserClient, sessionId, targetId, viewerClients, apiClients,
                 screencastStarted, listening, phase>>
  /\ UNCHANGED registryVars

\* startScreencast, lines 1352-1358, back in connectToPage and its caller
OnPageStartScreencast(t) ==
  /\ Resume(t, "cp_startScreencast")
  /\ screencastStarted' = (IF Ok THEN TRUE ELSE screencastStarted)
  /\ Settle(t, AfterConnectToPage(t, tasks[t], browserClient, sessionId, viewerClients))
  /\ UNCHANGED <<browserClient, sessionId, targetId, viewerClients, apiClients,
                 listening, phase>>
  /\ UNCHANGED registryVars

\* emitPageList at the end of connectToBrowser (line 334) or of a target
\* listener (lines 279, 299), lines 375-386
OnPageList(t) ==
  /\ \/ Resume(t, "cb_getTargets")
     \/ Resume(t, "h_getTargets")
  /\ Settle(t, Finished)
  /\ UNCHANGED <<browserClient, sessionId, targetId, viewerClients, apiClients,
                 screencastStarted, listening, phase>>
  /\ UNCHANGED registryVars

\* switchToPage, lines 401-409: the stop was answered (errors ignored)
OnSwitchStopScreencast(t) ==
  /\ Resume(t, "sw_stopScreencast")
  /\ LET T == tasks[t] IN
     IF browserClient
     THEN /\ Settle(t, Goto(T, "sw_detachFromTarget",
                            Call(t, "Target.detachFromTarget", sessionId, Null)))
          /\ UNCHANGED screencastStarted
     ELSE /\ screencastStarted' = FALSE
          /\ Settle(t, Thrown(t, T, browserClient))
  /\ UNCHANGED <<browserClient, sessionId, targetId, viewerClients, apiClients,
                 listening, phase>>
  /\ UNCHANGED registryVars

\* switchToPage, lines 406-419: the detach was answered (errors ignored)
OnSwitchDetach(t) ==
  /\ Resume(t, "sw_detachFromTarget")
  /\ screencastStarted' = FALSE
  /\ Settle(t, ActivateTarget(t, tasks[t], browserClient))
  /\ UNCHANGED <<browserClient, sessionId, targetId, viewerClients, apiClients,
                 listening, phase>>
  /\ UNCHANGED registryVars

\* switchToPage, lines 415-421, and connectToPage, lines 208-216
OnActivateTarget(t) ==
  /\ Resume(t, "sw_activateTarget")
  /\ Settle(t, connectToPage(t, tasks[t], tasks[t].arg, browserClient))
  /\ UNCHANGED <<browserClient, sessionId, targetId, viewerClients, apiClients,
                 screencastStarted, listening, phase>>
  /\ UNCHANGED registryVars

\* pushInitialFrame, lines 449-461, and switchToPage, lines 426-431
OnCaptureScreenshot(t) ==
  /\ Resume(t, "sw_captureScreenshot")
  /\ Settle(t, SwitchTail(t, tasks[t], browserClient))
  /\ UNCHANGED <<browserClient, sessionId, targetId, viewerClients, apiClients,
                 screencastStarted, listening, phase>>
  /\ UNCHANGED registryVars

\* emitPageList awaited by switchToPage, lines 431-433, and the return to its caller
OnSwitchPageList(t) ==
  /\ Resume(t, "sw_getTargets")
  /\ Settle(t, AfterSwitch(t, tasks[t], browserClient))
  /\ UNCHANGED <<browserClient, sessionId, targetId, viewerClients, apiClients,
                 screencastStarted, listening, phase>>
  /\ UNCHANGED registryVars

\* targetDestroyed listener, lines 290-297
OnDestroyedGetTargets(t) ==
  /\ Resume(t, "td_getTargets")
  /\ LET T == tasks[t] IN
     Settle(t, IF ~Ok THEN Finished
               ELSE IF targets # {} THEN switchToPage(t, T, FirstOf(targets))
               ELSE IF browserClient
                    THEN Goto(T, "td_createTarget", Call(t, "Target.createTarget", Null, Null))
                    ELSE AfterSwitch(t, T, browserClient))
  /\ UNCHANGED <<browserClient, sessionId, targetId, viewerClients, apiClients,
                 screencastStarted, listening, phase>>
  /\ UNCHANGED registryVars

\* createNewPage, lines 472-476, called by the targetDestroyed listener (line
\* 296): the new target is announced to the targetCreated listener first
OnCreateNewPage(t) ==
  /\ Resume(t, "td_createTarget")
  /\ IF Ok
     THEN /\ FreeTasks # {}
          /\ LET h == FirstOf(FreeTasks)
                 l == TargetCreatedListener(h, nextTarget)
                 r == AfterSwitch(t, tasks[t], browserClient)
             IN /\ tasks' = [tasks EXCEPT ![h] = l.task, ![t] = r.task]
                /\ wire' = Tail(wire) \o l.calls \o r.calls
     ELSE Settle(t, AfterSwitch(t, tasks[t], browserClient))
  /\ UNCHANGED <<browserClient, sessionId, targetId, viewerClients, apiClients,
                 screencastStarted, listening, phase>>
  /\ UNCHANGED registryVars

\* startScreencast called by tryStartScreencast, lines 1352-1358
OnStartScreencast(t) ==
  /\ Resume(t, "ts_startScreencast")
  /\ screencastStarted' = (IF Ok THEN TRUE ELSE screencastStarted)
  /\ Settle(t, Finished)
  /\ UNCHANGED <<browserClient, sessionId, targetId, viewerClients, apiClients,
                 listening, phase>>
  /\ UNCHANGED registryVars

\* stopScreencast called by tryStopScreencast, lines 1368-1373
OnStopScreencast(t) ==
  /\ Resume(t, "tp_stopScreencast")
  /\ screencastStarted' = (IF Ok THEN FALSE ELSE screencastStarted)
  /\ Settle(t, Finished)
  /\ UNCHANGED <<browserClient, sessionId, targetId, viewerClients, apiClients,
                 listening, phase>>
  /\ UNCHANGED registryVars

\* disconnect, lines 1383-1394
OnDisconnectStop(t) ==
  /\ Resume(t, "dc_stopScreencast")
  /\ LET T == tasks[t] IN
     IF Ok /\ browserClient
     THEN /\ Settle(t, Goto(T, "dc_detachFromTarget",
                            Call(t, "Target.detachFromTarget", sessionId, Null)))
          /\ UNCHANGED <<sessionId, targetId, viewerClients, apiClients,
                         screencastStarted, phase>>
     ELSE /\ sessionId' = Null
          /\ Settle(t, disconnectClose(t, T, browserClient))
          /\ IF browserClient
             THEN UNCHANGED <<targetId, viewerClients, apiClients, screencastStarted, phase>>
             ELSE Cleared
  /\ UNCHANGED <<browserClient, listening>>
  /\ UNCHANGED registryVars

\* disconnect, lines 1384-1394
OnDisconnectDetach(t) ==
  /\ Resume(t, "dc_detachFromTarget")
  /\ sessionId' = Null
  /\ Settle(t, disconnectClose(t, tasks[t], browserClient))
  /\ IF browserClient
     THEN UNCHANGED <<targetId, viewerClients, apiClients, screencastStarted, phase>>
     ELSE Cleared
  /\ UNCHANGED <<browserClient, listening>>
  /\ UNCHANGED registryVars

\* disconnect, lines 1394-1406, and sessionsByToken.delete (SessionManager line 111)
OnClose(t) ==
  /\ Resume(t, "dc_close")
  /\ browserClient' = FALSE
  /\ Cleared
  /\ Settle(t, Finished)
  /\ UNCHANGED <<sessionId, listening>>
  /\ UNCHANGED registryVars

(* ------------------------- the specification --------------------------- *)
Next ==
  \/ \E c \in ViewerIds \cup ApiIds : CreateSession(c) /\ UNCHANGED auxVars
  \/ \E c \in ViewerIds \cup ApiIds : addClient(c) /\ UNCHANGED auxVars
  \/ \E c \in ViewerIds \cup ApiIds : removeClient(c) /\ UNCHANGED auxVars
  \/ \E tgt \in TargetIds : ClientSwitchToPage(tgt) /\ UNCHANGED auxVars
  \/ EnvTargetCreated /\ UNCHANGED auxVars
  \/ \E tgt \in TargetIds : EnvTargetDestroyed(tgt) /\ UNCHANGED auxVars
  \/ \E t \in TaskIds : OnOpen(t) /\ UNCHANGED auxVars
  \/ \E t \in TaskIds : OnSetDiscoverTargets(t) /\ UNCHANGED auxVars
  \/ \E t \in TaskIds : OnElectGetTargets(t) /\ UNCHANGED auxVars
  \/ \E t \in TaskIds : OnElectAttach(t) /\ UNCHANGED auxVars
  \/ \E t \in TaskIds : OnElectRuntimeEnable(t) /\ UNCHANGED auxVars
  \/ \E t \in TaskIds : OnElectEvaluate(t) /\ UNCHANGED auxVars
  \/ \E t \in TaskIds : OnElectDetach(t) /\ UNCHANGED auxVars
  \/ \E t \in TaskIds : OnCreateFirstTarget(t) /\ UNCHANGED auxVars
  \/ \E t \in TaskIds : OnAttachToTarget(t) /\ UNCHANGED auxVars
  \/ \E t \in TaskIds : OnPageEnable(t) /\ UNCHANGED auxVars
  \/ \E t \in TaskIds : OnRuntimeEnable(t) /\ UNCHANGED auxVars
  \/ \E t \in TaskIds : OnGetFrameTree(t) /\ UNCHANGED auxVars
  \/ \E t \in TaskIds : OnSetDeviceMetricsOverride(t) /\ UNCHANGED auxVars
  \/ \E t \in TaskIds : OnPageStartScreencast(t) /\ UNCHANGED auxVars
  \/ \E t \in TaskIds : OnPageList(t) /\ UNCHANGED auxVars
  \/ \E t \in TaskIds : OnSwitchStopScreencast(t) /\ UNCHANGED auxVars
  \/ \E t \in TaskIds : OnSwitchDetach(t) /\ UNCHANGED auxVars
  \/ \E t \in TaskIds : OnActivateTarget(t) /\ UNCHANGED auxVars
  \/ \E t \in TaskIds : OnCaptureScreenshot(t) /\ UNCHANGED auxVars
  \/ \E t \in TaskIds : OnSwitchPageList(t) /\ UNCHANGED auxVars
  \/ \E t \in TaskIds : OnDestroyedGetTargets(t) /\ UNCHANGED auxVars
  \/ \E t \in TaskIds : OnCreateNewPage(t) /\ UNCHANGED auxVars
  \/ \E t \in TaskIds : OnStartScreencast(t) /\ UNCHANGED auxVars
  \/ \E t \in TaskIds : OnStopScreencast(t) /\ UNCHANGED auxVars
  \/ \E t \in TaskIds : OnDisconnectStop(t) /\ UNCHANGED auxVars
  \/ \E t \in TaskIds : OnDisconnectDetach(t) /\ UNCHANGED auxVars
  \/ \E t \in TaskIds : OnClose(t) /\ UNCHANGED auxVars

Spec == Init /\ [][Next]_vars

(* ===================== properties of a Browser Session ================= *)
PageSessions == {a \in attached : a.by = "cp_attachToTarget"}

PageOps == {"connectToBrowser", "switchToPage", "targetCreated", "targetDestroyed"}

\* no page switch, attach protocol or target listener (both listeners call
\* switchToPage) is under way
NoSwitchInProgress == \A t \in TaskIds : tasks[t].op \notin PageOps

\* every task has returned and every CDP command has been answered
Quiescent == Busy = {} /\ wire = <<>>

\* the commands written to the WebSocket by the step
SentNow == {wire'[i].method : i \in (Len(wire) + 1)..Len(wire')}

\* C1: in every reachable state of a session, screencastStarted implies that
\* the viewer set is not empty.
C1_ScreencastImpliesViewers == screencastStarted => viewerClients # {}

\* C2: when removeClient removes the last viewer while the screencast runs,
\* then at its return Page.stopScreencast has been sent and screencastStarted
\* is false.
C2_StopByReturnOfRemoveClient ==
  [][\A c \in ViewerIds :
       (removeClient(c) /\ viewerClients = {c} /\ screencastStarted)
         => ("Page.stopScreencast" \in SentNow /\ ~screencastStarted')]_vars

\* C3: with a page attached, once every CDP call has completed without error
\* and at least one viewer is attached, the screencast is started.
C3_ViewersGetScreencast ==
  (Quiescent /\ ~cdpError /\ phase = "live" /\ viewerClients # {}
     /\ sessionId \in AttachedSids)
    => screencastStarted

\* C4: the only page session attached by connectToPage and not detached is
\* the one recorded in sessionId.
C4_OnePageAttached == \A a \in PageSessions : a.sid = sessionId

\* C5: whenever no switchToPage or connectToBrowser is in progress, sessionId
\* is non-null if and only if a page session is attached, and then it names
\* that session, which is the one of targetId.
C5_SessionIdNamesAttachedPage ==
  (NoSwitchInProgress /\ phase = "live")
    => /\ (sessionId # Null) <=> (PageSessions # {})
       /\ sessionId # Null
            => \E a \in PageSessions : a.sid = sessionId /\ a.target = targetId

\* C10: the operations of one session are serialized: no two of them are in
\* progress at once (the stop of the screencast and the disconnect started by
\* one removal of the last client count as one operation).
C10_Serialized ==
  \A t1, t2 \in Busy :
    t1 # t2 => {tasks[t1].op, tasks[t2].op} = {"tryStopScreencast", "disconnect"}

\* C22: findActiveTarget returns the first page other than about:blank whose
\* document.visibilityState evaluates to "visible"; if none is visible, the
\* first page other than about:blank; if there is none, the first page; with
\* no page at all it returns null and connectToBrowser creates an about:blank
\* page and attaches to it.
C22_ActivePageElection ==
  [][\A t \in TaskIds :
       LET T == tasks[t]
           U == tasks'[t]
           pages == targets \ blank
           inLoop == T.pc \in {"fa_getTargets", "fa_attachToTarget", "fa_runtimeEnable",
                               "fa_evaluate", "fa_detachFromTarget"}
           sawVisible == T.pc = "fa_detachFromTarget" /\ T.vis
       IN /\ (T.pc = "fa_getTargets" /\ U.pc \notin {"fa_getTargets", "idle"})
               => /\ U.fallback = (IF pages # {} THEN FirstOf(pages)
                                   ELSE IF targets # {} THEN FirstOf(targets) ELSE Null)
                  /\ pages # {} => (U.pc = "fa_attachToTarget" /\ U.cand = Ordered(pages))
          /\ (sawVisible /\ U # T /\ browserClient)
               => (U.pc = "cp_attachToTarget" /\ U.arg = Head(T.cand))
          /\ (inLoop /\ ~sawVisible /\ U.pc = "cp_attachToTarget")
               => (U.arg = U.fallback /\ U.cand = <<>>)
          /\ (inLoop /\ U.pc = "cb_createTarget")
               => (U.fallback = Null /\ U.cand = <<>>)
          /\ (T.pc = "cb_createTarget" /\ U.pc = "cp_attachToTarget")
               => (U.arg \in blank' \ targets)]_vars

\* C22, amended: the election skips a candidate whose attach, Runtime.enable,
\* evaluation or detach fails; it returns the first page other than
\* about:blank that evaluates to "visible" and whose temporary session is then
\* detached without error, and otherwise falls back as stated.
C22_ElectionSkipsFailedChecks ==
  [][\A t \in TaskIds :
       LET T == tasks[t]
           U == tasks'[t]
           pages == targets \ blank
           inLoop == T.pc \in {"fa_getTargets", "fa_attachToTarget", "fa_runtimeEnable",
                               "fa_evaluate", "fa_detachFromTarget"}
           sawVisible == T.pc = "fa_detachFromTarget" /\ T.vis
       IN /\ (T.pc = "fa_getTargets" /\ U.pc \notin {"fa_getTargets", "idle"})
               => /\ U.fallback = (IF pages # {} THEN FirstOf(pages)
                                   ELSE IF targets # {} THEN FirstOf(targets) ELSE Null)
                  /\ pages # {} => (U.pc = "fa_attachToTarget" /\ U.cand = Ordered(pages))
          /\ (sawVisible /\ U # T /\ Ok /\ browserClient)
               => (U.pc = "cp_attachToTarget" /\ U.arg = Head(T.cand))
          /\ (inLoop /\ ~(sawVisible /\ Ok) /\ U.pc = "cp_attachToTarget")
               => (U.arg = U.fallback /\ U.cand = <<>>)
          /\ (inLoop /\ U.pc = "cb_createTarget")
               => (U.fallback = Null /\ U.cand = <<>>)
          /\ (T.pc = "cb_createTarget" /\ U.pc = "cp_attachToTarget")
               => (U.arg \in blank' \ targets)]_vars

\* connectToBrowser attaches to the page in front, which is not the first
\* page of the list
C22_Witness ==
  \E t \in TaskIds :
    /\ tasks[t].op = "connectToBrowser" /\ tasks[t].pc = "cp_attachToTarget"
    /\ tasks[t].fallback # Null /\ tasks[t].arg # tasks[t].fallback
    /\ tasks[t].arg = front /\ front \notin blank

\* C34: the election attaches only temporarily: a frame of findActiveTarget
\* that holds a temporary session leaves its candidate (for the next one, for
\* the fallbacks or for connectToPage) only on the reply of the
\* Target.detachFromTarget it has sent for that session, also when
\* Runtime.enable or Runtime.evaluate has failed; and no step of the election
\* changes sessionId or targetId.
C34_ElectionDetaches ==
  [][\A t \in TaskIds :
       LET T == tasks[t]
           U == tasks'[t]
       IN /\ T.pc \in {"fa_getTargets", "fa_attachToTarget", "fa_runtimeEnable",
                       "fa_evaluate", "fa_detachFromTarget"}
          /\ U # T
          => /\ sessionId' = sessionId /\ targetId' = targetId
             /\ (T.tmp # Null /\ U.pc \notin {"fa_evaluate", "fa_detachFromTarget"})
                  => /\ T.pc = "fa_detachFromTarget"
                     /\ Head(wire).method = "Target.detachFromTarget"
                     /\ Head(wire).sid = T.tmp]_vars

(* ======================================================================= *)
(* SessionManager: the registry of sessions, by token.  A BrowserSession   *)
(* appears here with the fields the registry protocol reads and writes     *)
(* (browserClient, sessionId set or null, the two client sets) and with    *)
(* connectToBrowser and disconnect at the grain of their awaits; opened    *)
(* and closed count the CDP transports opened for it and the close() calls *)
(* made on them.                                                           *)
(* ======================================================================= *)
NewSession == [browserClient |-> FALSE, sessionId |-> FALSE,
               viewerClients |-> {}, apiClients |-> {},
               opened |-> 0, closed |-> 0, destroyed |-> FALSE]

IdleJob == [op |-> "idle", pc |-> "idle", session |-> Null, token |-> NoToken, ctype |-> "none"]

DcPcs == {"dc_stopScreencast", "dc_detachFromTarget", "dc_close"}

ClientsOf(S, n) == S[n].viewerClients \cup S[n].apiClients

\* BrowserSession.addClient
SessAddClient(S, n, c, ty) ==
  IF ty = "viewer" THEN [S EXCEPT ![n].viewerClients = @ \cup {c}]
  ELSE [S EXCEPT ![n].apiClients = @ \cup {c}]

\* BrowserSession.removeClient
SessRemoveClient(S, n, c, ty) ==
  IF ty = "viewer" THEN [S EXCEPT ![n].viewerClients = @ \ {c}]
  ELSE [S EXCEPT ![n].apiClients = @ \ {c}]

\* disconnect, lines 1401-1405
SessCleared(S, n) ==
  [S EXCEPT ![n].viewerClients = {}, ![n].apiClients = {}]

SessionIdle ==
  /\ browserClient = FALSE /\ sessionId = Null /\ targetId = Null
  /\ viewerClients = {} /\ apiClients = {} /\ screencastStarted = FALSE
  /\ listening = FALSE
  /\ tasks = [t \in TaskIds |-> Idle] /\ wire = <<>> /\ phase = "new"
  /\ transport = "none" /\ targets = {} /\ blank = {} /\ front = Null
  /\ nextTarget = 1 /\ attached = {} /\ nextSid = 1 /\ cdpError = FALSE

\* emitToClient, lines 96-126: the callback of the client; a ViewerClient
\* emits the event on its socket, an ApiClient has the empty callbacks of
\* BaseClient
emitToClient(ty, s, e, a) ==
  IF ty = "viewer" THEN <<[event |-> e, arg |-> a, socket |-> s]>> ELSE <<>>

\* emitToViewers, lines 87-91, in the insertion order of the set
SessEmitToViewers(S, n, e, a) ==
  LET o == Ordered(S[n].viewerClients)
  IN [i \in 1..Len(o) |-> emitToClient(clientType[o[i]], clientSocket[o[i]], e, a)[1]]

InitRegistry ==
  /\ SessionIdle
  /\ AuxIdle
  /\ sessionsByToken = [k \in Tokens |-> Null]
  /\ clientsBySocketId = [s \in Sockets |-> Null]
  /\ socketTokenMap = [s \in Sockets |-> NoToken]
  /\ clientType = [c \in ClientIds |-> "none"]
  /\ clientSession = [c \in ClientIds |-> Null]
  /\ clientSocket = [c \in ClientIds |-> Null]
  /\ nextClient = 1
  /\ sess = [n \in SessionIds |-> NewSession]
  /\ nextSession = 1
  /\ conn = [n \in SessionIds |-> "none"]
  /\ job = [s \in Sockets |-> IdleJob]

\* connectBrowser, lines 61-94, on the registry as left by the removal before
\* it (sbt, S, cs): a new client, then reuse of the session of the token or a
\* new session and connectToBrowser up to the await of CDP()
ConnectRest(s, tok, ty, sbt, S, cs) ==
  LET c == nextClient
      n == IF sbt[tok] # Null THEN sbt[tok] ELSE nextSession
  IN /\ c <= MaxClients
     /\ clientsBySocketId' = [clientsBySocketId EXCEPT ![s] = c]
     /\ socketTokenMap' = [socketTokenMap EXCEPT ![s] = tok]
     /\ clientType' = [clientType EXCEPT ![c] = ty]
     /\ clientSocket' = [clientSocket EXCEPT ![c] = s]
     /\ nextClient' = c + 1
     /\ clientSession' = [cs EXCEPT ![c] = n]
     /\ sess' = SessAddClient(S, n, c, ty)
     /\ IF sbt[tok] # Null
        THEN /\ sessionsByToken' = sbt
             /\ emitted' = emitted \o emitToClient(ty, s, "browser:connected",
                                                  [url |-> "", targetId |-> Null])
             /\ job' = [job EXCEPT ![s] = IdleJob]
             /\ UNCHANGED <<nextSession, conn>>
        ELSE /\ n <= MaxSessions
             /\ sessionsByToken' = [sbt EXCEPT ![tok] = n]
             /\ nextSession' = n + 1
             /\ conn' = [conn EXCEPT ![n] = "cb_open"]
             /\ job' = [job EXCEPT ![s] = [op |-> "connectBrowser", pc |-> "connectToBrowser",
                                           session |-> n, token |-> tok, ctype |-> ty]]
             /\ UNCHANGED emitted

\* removeClientFromSession, lines 111-118, once disconnect() has returned (or
\* was not called), and the return to disconnectBrowser or to connectBrowser
FinishRemove(s, J, sbt, S, cs) ==
  IF J.op = "connectBrowser"
  THEN ConnectRest(s, J.token, J.ctype, sbt, S, cs)
  ELSE /\ sessionsByToken' = sbt
       /\ sess' = S
       /\ clientSession' = cs
       /\ clientsBySocketId' = [clientsBySocketId EXCEPT ![s] = Null]
       /\ socketTokenMap' = [socketTokenMap EXCEPT ![s] = NoToken]
       /\ job' = [job EXCEPT ![s] = IdleJob]
       /\ UNCHANGED <<clientType, clientSocket, nextClient, nextSession, conn, emitted>>

\* disconnect() has returned to removeClientFromSession, lines 1401-1405 and
\* SessionManager line 111
Disconnected(s, n, tok, S, cs, J) ==
  FinishRemove(s, J, [sessionsByToken EXCEPT ![tok] = Null],
               [SessCleared(S, n) EXCEPT ![n].destroyed = TRUE], cs)

\* disconnect, lines 1391-1399: close() is called when browserClient is set
DisconnectClose(s, n, tok, S, cs, J) ==
  IF S[n].browserClient
  THEN /\ sess' = [S EXCEPT ![n].closed = @ + 1]
       /\ clientSession' = cs
       /\ job' = [job EXCEPT ![s] = [J EXCEPT !.pc = "dc_close", !.session = n]]
       /\ UNCHANGED <<sessionsByToken, clientsBySocketId, socketTokenMap, clientType,
                      clientSocket, nextClient, nextSession, conn, emitted>>
  ELSE Disconnected(s, n, tok, S, cs, J)

\* removeClientFromSession, lines 101-110, and disconnect up to its first
\* await; J is the job the socket goes on with
RemoveStart(s, J) ==
  LET tok == socketTokenMap[s]
      c == clientsBySocketId[s]
      n == IF tok # NoToken THEN sessionsByToken[tok] ELSE Null
  IN IF tok # NoToken /\ c # Null /\ n # Null
     THEN LET cs == [clientSession EXCEPT ![c] = Null]
              S == SessRemoveClient(sess, n, c, clientType[c])
          IN IF ClientsOf(S, n) # {}
             THEN FinishRemove(s, J, sessionsByToken, S, cs)
             ELSE IF S[n].sessionId /\ S[n].browserClient
                  THEN /\ sess' = S
                       /\ clientSession' = cs
                       /\ job' = [job EXCEPT ![s] =
                                    [J EXCEPT !.pc = "dc_stopScreencast", !.session = n]]
                       /\ UNCHANGED <<sessionsByToken, clientsBySocketId, socketTokenMap,
                                      clientType, clientSocket, nextClient, nextSession,
                                      conn, emitted>>
                  ELSE DisconnectClose(s, n, tok, S, cs, J)
     ELSE FinishRemove(s, J, sessionsByToken, sess, clientSession)

\* socket event browser:connect: connectBrowser, lines 56-94
connectBrowser(s, tok, ty) ==
  /\ job[s].op = "idle"
  /\ nextClient <= MaxClients
  /\ IF socketTokenMap[s] # NoToken
     THEN RemoveStart(s, [IdleJob EXCEPT !.op = "connectBrowser", !.token = tok, !.ctype = ty])
     ELSE ConnectRest(s, tok, ty, sessionsByToken, sess, clientSession)
  /\ UNCHANGED sessionVars

\* socket events browser:disconnect and disconnect: removeClientFromSession
disconnectBrowser(s) ==
  /\ job[s].op = "idle"
  /\ socketTokenMap[s] # NoToken
  /\ RemoveStart(s, [IdleJob EXCEPT !.op = "disconnectBrowser"])
  /\ UNCHANGED sessionVars

\* disconnect, lines 1383-1394: Page.stopScreencast was answered
RegDisconnectStop(s) ==
  /\ job[s].pc = "dc_stopScreencast"
  /\ LET n == job[s].session IN
     IF sess[n].browserClient /\ sess[n].closed = 0
     THEN /\ job' = [job EXCEPT ![s].pc = "dc_detachFromTarget"]
          /\ UNCHANGED <<sessionsByToken, clientsBySocketId, socketTokenMap, clientType,
                         clientSession, clientSocket, nextClient, sess, nextSession, conn,
                         emitted>>
     ELSE DisconnectClose(s, n, socketTokenMap[s], [sess EXCEPT ![n].sessionId = FALSE],
                          clientSession, job[s])
  /\ UNCHANGED sessionVars

\* disconnect, lines 1384-1394: Target.detachFromTarget was answered
RegDisconnectDetach(s) ==
  /\ job[s].pc = "dc_detachFromTarget"
  /\ LET n == job[s].session IN
     DisconnectClose(s, n, socketTokenMap[s], [sess EXCEPT ![n].sessionId = FALSE],
                     clientSession, job[s])
  /\ UNCHANGED sessionVars

\* disconnect, lines 1394-1406: close() has returned
RegDisconnectClosed(s) ==
  /\ job[s].pc = "dc_close"
  /\ LET n == job[s].session IN
     Disconnected(s, n, socketTokenMap[s], [sess EXCEPT ![n].browserClient = FALSE],
                  clientSession, job[s])
  /\ UNCHANGED sessionVars

\* connectBrowser, lines 92-93: connectToBrowser of session n has returned
Returned(n) ==
  [s \in Sockets |->
     IF job[s].pc = "connectToBrowser" /\ job[s].session = n THEN IdleJob ELSE job[s]]

\* connectToBrowser, lines 252-255: the CDP transport is open
RegOpen(n) ==
  /\ conn[n] = "cb_open"
  /\ sess' = [sess EXCEPT ![n].browserClient = TRUE, ![n].opened = @ + 1]
  /\ conn' = [conn EXCEPT ![n] = "cb_attach"]
  /\ UNCHANGED <<sessionsByToken, clientsBySocketId, socketTokenMap, clientType,
                 clientSession, clientSocket, nextClient, nextSession, job, emitted>>
  /\ UNCHANGED sessionVars

\* connectToBrowser, lines 252 and 335-338: the browser pool refuses the token
RegOpenFails(n) ==
  /\ conn[n] = "cb_open"
  /\ conn' = [conn EXCEPT ![n] = "done"]
  /\ job' = Returned(n)
  /\ emitted' = emitted \o SessEmitToViewers(sess, n, "browser:error", "message")
  /\ UNCHANGED <<sessionsByToken, clientsBySocketId, socketTokenMap, clientType,
                 clientSession, clientSocket, nextClient, sess, nextSession>>
  /\ UNCHANGED sessionVars

\* connectToBrowser, lines 257-318, and connectToPage, lines 213-218: the page
\* is attached, unless disconnect() dropped or closed the transport meanwhile
RegAttach(n) ==
  /\ conn[n] = "cb_attach"
  /\ IF sess[n].browserClient /\ sess[n].closed = 0
     THEN /\ sess' = [sess EXCEPT ![n].sessionId = TRUE]
          /\ conn' = [conn EXCEPT ![n] = "cb_rest"]
          /\ UNCHANGED <<job, emitted>>
     ELSE /\ conn' = [conn EXCEPT ![n] = "done"]
          /\ job' = Returned(n)
          /\ emitted' = emitted \o SessEmitToViewers(sess, n, "browser:error", "message")
          /\ UNCHANGED sess
  /\ UNCHANGED <<sessionsByToken, clientsBySocketId, socketTokenMap, clientType,
                 clientSession, clientSocket, nextClient, nextSession>>
  /\ UNCHANGED sessionVars

\* connectToBrowser, lines 222-339: the rest of the attach protocol
RegAttachDone(n) ==
  /\ conn[n] = "cb_rest"
  /\ conn' = [conn EXCEPT ![n] = "done"]
  /\ job' = Returned(n)
  /\ emitted' = emitted \o SessEmitToViewers(sess, n, "browser:connected",
                                             [url |-> "url", targetId |-> 1])
  /\ UNCHANGED <<sessionsByToken, clientsBySocketId, socketTokenMap, clientType,
                 clientSession, clientSocket, nextClient, sess, nextSession>>
  /\ UNCHANGED sessionVars

\* handlePageEvent, lines 353-361: the page of session n streams a screencast
\* frame, which goes to the viewers of the session
RegScreencastFrame(n) ==
  /\ n < nextSession
  /\ sess[n].browserClient /\ sess[n].sessionId /\ sess[n].closed < sess[n].opened
  /\ Len(SelectSeq(emitted, LAMBDA e : e.event = "browser:frame")) < MaxPushes
  /\ emitted' = emitted \o SessEmitToViewers(sess, n, "browser:frame", Null)
  /\ UNCHANGED <<sessionVars, registryVars>>

\* HTTP POST /stop, router lines 33-57: the request is refused without a token
\* or while the session registered for the token counts a client
\* (getSessionByToken, getClientCount), else it is forwarded to the browser pool
stop(tok) ==
  /\ Len(replies) < MaxStops
  /\ LET session == IF tok = NoToken THEN Null ELSE sessionsByToken[tok]
         used == session # Null /\ Cardinality(ClientsOf(sess, session)) > 0
     IN replies' = Append(replies, [op |-> "stop", token |-> tok,
                                    forwarded |-> tok # NoToken /\ ~used])
  /\ UNCHANGED <<sessionVars, registryVars, casting, sent, emitted, keyVars, eventVars, snapVars, poolVars>>

NextRegistry ==
  \/ \E tok \in Tokens \cup {NoToken} : stop(tok)
  \/ \E s \in Sockets, tok \in Tokens, ty \in {"viewer", "api"} : connectBrowser(s, tok, ty) /\ UNCHANGED <<casting, sent, replies, keyVars, eventVars, snapVars, poolVars>>
  \/ \E s \in Sockets : disconnectBrowser(s) /\ UNCHANGED <<casting, sent, replies, keyVars, eventVars, snapVars, poolVars>>
  \/ \E s \in Sockets : RegDisconnectStop(s) /\ UNCHANGED <<casting, sent, replies, keyVars, eventVars, snapVars, poolVars>>
  \/ \E s \in Sockets : RegDisconnectDetach(s) /\ UNCHANGED <<casting, sent, replies, keyVars, eventVars, snapVars, poolVars>>
  \/ \E s \in Sockets : RegDisconnectClosed(s) /\ UNCHANGED <<casting, sent, replies, keyVars, eventVars, snapVars, poolVars>>
  \/ \E n \in SessionIds : RegOpen(n) /\ UNCHANGED <<casting, sent, replies, keyVars, eventVars, snapVars, poolVars>>
  \/ \E n \in SessionIds : RegOpenFails(n) /\ UNCHANGED <<casting, sent, replies, keyVars, eventVars, snapVars, poolVars>>
  \/ \E n \in SessionIds : RegAttach(n) /\ UNCHANGED <<casting, sent, replies, keyVars, eventVars, snapVars, poolVars>>
  \/ \E n \in SessionIds : RegAttachDone(n) /\ UNCHANGED <<casting, sent, replies, keyVars, eventVars, snapVars, poolVars>>

SpecRegistry == InitRegistry /\ [][NextRegistry]_vars

\* the registry with the screencast of its connected sessions
NextPush ==
  \/ \E s \in Sockets, tok \in Tokens, ty \in {"viewer", "api"} : connectBrowser(s, tok, ty) /\ UNCHANGED <<casting, sent, replies, keyVars, eventVars, snapVars, poolVars>>
  \/ \E s \in Sockets : disconnectBrowser(s) /\ UNCHANGED <<casting, sent, replies, keyVars, eventVars, snapVars, poolVars>>
  \/ \E s \in Sockets : RegDisconnectStop(s) /\ UNCHANGED <<casting, sent, replies, keyVars, eventVars, snapVars, poolVars>>
  \/ \E s \in Sockets : RegDisconnectDetach(s) /\ UNCHANGED <<casting, sent, replies, keyVars, eventVars, snapVars, poolVars>>
  \/ \E s \in Sockets : RegDisconnectClosed(s) /\ UNCHANGED <<casting, sent, replies, keyVars, eventVars, snapVars, poolVars>>
  \/ \E n \in SessionIds : RegOpen(n) /\ UNCHANGED <<casting, sent, replies, keyVars, eventVars, snapVars, poolVars>>
  \/ \E n \in SessionIds : RegOpenFails(n) /\ UNCHANGED <<casting, sent, replies, keyVars, eventVars, snapVars, poolVars>>
  \/ \E n \in SessionIds : RegAttach(n) /\ UNCHANGED <<casting, sent, replies, keyVars, eventVars, snapVars, poolVars>>
  \/ \E n \in SessionIds : RegAttachDone(n) /\ UNCHANGED <<casting, sent, replies, keyVars, eventVars, snapVars, poolVars>>
  \/ \E n \in SessionIds : RegScreencastFrame(n) /\ UNCHANGED <<casting, sent, replies, keyVars, eventVars, snapVars, poolVars>>

SpecPush == InitRegistry /\ [][NextPush]_vars

(* ===================== properties of the registry ====================== *)
Allocated == 1..(nextSession - 1)

\* a disconnect() of session n is under way
Disconnecting(n) == \E s \in Sockets : job[s].pc \in DcPcs /\ job[s].session = n

\* the sockets whose attach has completed and whose detach has not started
Attached == {s \in Sockets : job[s].op = "idle" /\ clientsBySocketId[s] # Null}

\* session n holds clients or an open transport
Live(n) == ClientsOf(sess, n) # {} \/ sess[n].opened > sess[n].closed

\* C6: once the last client of a session has detached and the session has been
\* destroyed, its CDP transport has been closed exactly once (never twice,
\* and not left open), and the registry does not hold the session.
C6_TransportClosedOnce ==
  \A n \in Allocated :
    /\ sess[n].closed <= 1
    /\ (sess[n].destroyed /\ conn[n] = "done" /\ ~Disconnecting(n))
         => /\ sess[n].closed = sess[n].opened
            /\ \A k \in Tokens : sessionsByToken[k] # n

\* C7: every attached client of a token is bound to the session registered
\* for the token, and no two live sessions of one token coexist.
C7_SessionReuse ==
  /\ \A s \in Attached :
       clientSession[clientsBySocketId[s]] = sessionsByToken[socketTokenMap[s]]
  /\ \A n, m \in Allocated : (Live(n) /\ Live(m)) => n = m

\* a step adds a client to a registered session that has no client or whose
\* disconnect has started
BadReuse ==
  \E n \in Allocated :
    /\ ~(ClientsOf(sess', n) \subseteq ClientsOf(sess, n))
    /\ ClientsOf(sess, n) = {} \/ Disconnecting(n)

\* a step completes a removeClientFromSession whose delete hits the entry of
\* a session other than the one it looked up
BadDelete ==
  \E s \in Sockets :
    /\ job[s].pc \in DcPcs /\ job'[s].pc \notin DcPcs
    /\ sessionsByToken[socketTokenMap[s]] \notin {Null, job[s].session}

\* C8: no connectBrowser reuses a session that has zero clients or whose
\* disconnect has started, and no removeClientFromSession deletes a registry
\* entry created after it began.
C8_NoOrphanWindow == [][~BadReuse /\ ~BadDelete]_vars

\* C9: every attached client is a member of the client set of exactly one
\* session: the one it is bound to, which is the one registered for its token.
C9_ClientInOneSession ==
  \A s \in Attached :
    LET c == clientsBySocketId[s] IN
    /\ {n \in Allocated : c \in ClientsOf(sess, n)} = {clientSession[c]}
    /\ clientSession[c] = sessionsByToken[socketTokenMap[s]]

\* C21: POST /stop for a token is forwarded to the browser pool only when no
\* client is in the client set of a session for that token; it is refused
\* whenever a client is attached, whatever attach, detach and stop requests
\* interleave.
C21_StopOnlyWhenUnused ==
  [][\A tok \in Tokens :
       (replies' = Append(replies, [op |-> "stop", token |-> tok, forwarded |-> TRUE]))
         => ~\E s \in Sockets, n \in Allocated :
               /\ socketTokenMap[s] = tok
               /\ clientsBySocketId[s] # Null
               /\ clientsBySocketId[s] \in ClientsOf(sess, n)]_vars

\* C23: connectBrowser for a token that already has a session adds the new
\* client to that session and binds it, delivers exactly one synthesized
\* connected{url: "", targetId: null} to the socket of the new client and to
\* no other, returns reused (no connectToBrowser is awaited), and opens no
\* transport and starts no attach protocol.
C23_ReuseIsPrimedOnce ==
  [][\A s \in Sockets :
       (/\ nextClient' = nextClient + 1
        /\ clientSocket'[nextClient] = s
        /\ nextSession' = nextSession)
         => LET c == nextClient
                n == sessionsByToken'[socketTokenMap'[s]]
            IN /\ n # Null
               /\ c \in ClientsOf(sess', n)
               /\ clientSession'[c] = n
               /\ emitted' = Append(emitted, [event |-> "browser:connected",
                                              arg |-> [url |-> "", targetId |-> Null],
                                              socket |-> s])
               /\ job'[s] = IdleJob
               /\ sess'[n].opened = sess[n].opened
               /\ conn' = conn]_vars

\* C28: no browser:frame and no other pushed event is ever emitted on the
\* socket of a client of type API: whenever an event is emitted on a socket,
\* the client registered for that socket is not an API client.
C28_ApiSocketGetsNoPush ==
  [][\A i \in (Len(emitted) + 1)..Len(emitted') :
       LET c == clientsBySocketId'[emitted'[i].socket]
       IN c # Null => clientType'[c] # "api"]_vars

\* the attach protocol of session n ends in the catch of connectToBrowser
AttachFails(n) == conn[n] \in {"cb_open", "cb_attach"} /\ conn'[n] = "done"

\* session n is registered and its attach protocol has failed
AttachFailed(n) ==
  /\ n < nextSession /\ conn[n] = "done" /\ ~sess[n].sessionId
  /\ \E tok \in Tokens : sessionsByToken[tok] = n

\* C36: when the attach protocol of a new session fails, every viewer of the
\* session is sent browser:error and nothing else, the connectBrowser that
\* created the session returns normally (the browser:connect reply is a
\* success with reused false), and the session stays registered under its
\* token with the client of that socket in its client set; a later
\* connectBrowser for the token adds its client to that session and opens no
\* transport and starts no attach protocol.
C36_FailedAttachKeepsSession ==
  [][/\ \A n \in SessionIds : AttachFails(n) =>
          /\ \A v \in sess[n].viewerClients :
               clientType[v] = "viewer" =>
                 \E i \in (Len(emitted) + 1)..Len(emitted') :
                   emitted'[i].socket = clientSocket[v]
          /\ \A i \in (Len(emitted) + 1)..Len(emitted') :
               emitted'[i].event = "browser:error"
          /\ \E s \in Sockets : job[s].pc = "connectToBrowser" /\ job[s].session = n
          /\ \A s \in Sockets :
               job[s].pc = "connectToBrowser" /\ job[s].session = n =>
                 /\ job'[s] = IdleJob
                 /\ sessionsByToken'[job[s].token] = n
                 /\ socketTokenMap'[s] = job[s].token
                 /\ clientsBySocketId'[s] \in ClientsOf(sess', n)
     /\ \A s \in Sockets :
          LET tok == socketTokenMap'[s]
              n == sessionsByToken'[tok]
          IN (nextClient' = nextClient + 1 /\ clientsBySocketId'[s] = nextClient
              /\ AttachFailed(n) /\ sessionsByToken[tok] = n)
               => /\ nextClient \in ClientsOf(sess', n)
                  /\ job'[s] = IdleJob
                  /\ conn' = conn /\ nextSession' = nextSession
                  /\ sess'[n].opened = sess[n].opened
                  /\ sess'[n].sessionId = sess[n].sessionId]_vars

\* client c has been detached: it is not the client the registry holds for
\* its socket
Detached(c) == clientsBySocketId'[clientSocket'[c]] # c

\* C38: once a viewer has been removed from its session or its socket has
\* been detached by the registry, no pushed event is emitted to it: every
\* event is emitted on a socket whose registered client is a viewer in the
\* viewer set of a session; and a detached client has no session bound, so
\* that none of its handlers is registered on the socket (bindSession
\* registers them, unbindSession removes them).
C38_NoPushAfterDetach ==
  [][/\ \A i \in (Len(emitted) + 1)..Len(emitted') :
          LET c == clientsBySocketId'[emitted'[i].socket]
          IN /\ c # Null
             /\ \E n \in SessionIds : c \in sess'[n].viewerClients
     /\ \A c \in ClientIds :
          (c < nextClient' /\ Detached(c)) => clientSession'[c] = Null]_vars

\* C24: when an attached socket issues connectBrowser again, it is detached
\* first: once the new client of the socket exists, the previous client is in
\* no session's client set, the previous session has been destroyed if that
\* client was its last, and the socket has one client, which is in the client
\* set of the session of the new token.
C24_ReattachDetachesFirst ==
  [][\A s \in Sockets :
       LET old == clientsBySocketId[s]
           new == clientsBySocketId'[s]
       IN (old # Null /\ new \notin {Null, old})
            => LET prev == IF job[s].pc \in DcPcs THEN job[s].session ELSE clientSession[old]
                   n == sessionsByToken'[socketTokenMap'[s]]
               IN /\ \A m \in SessionIds : old \notin ClientsOf(sess', m)
                  /\ (prev # Null /\ ClientsOf(sess', prev) \subseteq {new})
                       => (sess'[prev].destroyed /\ n # prev)
                  /\ n # Null /\ new \in ClientsOf(sess', n)
                  /\ \A m \in SessionIds \ {n} : new \notin ClientsOf(sess', m)]_vars

(* ======================================================================= *)
(* One page switch observed from both ends: the CDP commands the switch    *)
(* writes (sent), the events the viewers receive (emitted) and the answer  *)
(* the requesting client gets (replies), while the browser streams         *)
(* screencast frames and pages are closed.  The session starts connected   *)
(* to one of two pages, with the screencast running iff it has a viewer.   *)
(* ======================================================================= *)
MaxFrames == 2

ScreenshotQuality == 60

\* the parameters the code passes with a command (those the protocol depends on)
Params(m) ==
  CASE m = "Target.attachToTarget" -> <<"flatten">>
    [] m = "Page.captureScreenshot" -> <<"jpeg", ScreenshotQuality>>
    [] OTHER -> <<>>

Command(c) == [method |-> c.method, sid |-> c.sid, target |-> c.target,
               params |-> Params(c.method)]

\* an event with the target it names; a frame comes from the screencast or from
\* the screenshot pushed after a switch
Event(e, a) == [event |-> e, arg |-> a, origin |-> "session"]

Frame(o) == [event |-> "browser:frame", arg |-> Null, origin |-> o]

\* emitToViewers reaches the viewers there are
emitToViewers(es) == IF viewerClients = {} THEN <<>> ELSE es

\* the commands a step has written, when it has taken `popped` replies off the wire
NewCalls(popped) == SubSeq(wire', Len(wire) - popped + 1, Len(wire'))

\* those written by a client's switchToPage
SwitchCalls(popped) ==
  LET new == NewCalls(popped) IN
  [i \in 1..Len(new) |-> Command(new[i])]

\* the browser's screencasts after it has processed command c
CastAfter(c) ==
  IF ~BrowserOk(c) THEN casting
  ELSE CASE c.method = "Page.startScreencast" -> casting \cup {c.sid}
         [] c.method \in {"Page.stopScreencast", "Target.detachFromTarget"} ->
              casting \ {c.sid}
         [] c.method = "close" -> {}
         [] OTHER -> casting

AttachPcs == {"cp_attachToTarget", "cp_pageEnable", "cp_runtimeEnable",
              "cp_getFrameTree", "cp_setDeviceMetricsOverride"}

\* what the viewers receive when task t resumes on the reply at the head of the wire
EmitsOnReply(t) ==
  LET pc == tasks[t].pc IN
  emitToViewers(
    CASE pc = "sw_captureScreenshot" ->
           (IF Ok THEN <<Frame("captureScreenshot")>> ELSE <<>>)
             \o <<Event("browser:pageSwitched", tasks[t].arg)>>
      [] pc \in {"sw_getTargets", "h_getTargets", "cb_getTargets"} ->
           IF Ok THEN <<Event("browser:pageList", targetId)>> ELSE <<>>
      [] pc \in AttachPcs ->
           IF Ok THEN <<>> ELSE <<Event("browser:error", tasks[t].arg)>>
      [] pc = "cp_startScreencast" ->
           IF Ok THEN <<>> ELSE <<Event("browser:error", tasks[t].arg)>>
      [] OTHER -> <<>>)
  \o emitToViewers(
       \* targetCreated listener, lines 272-278: switchToPage has returned
       IF tasks[t].op = "targetCreated" /\ pc # "h_getTargets"
          /\ tasks'[t].pc \in {"h_getTargets", "idle"}
       THEN <<Event("browser:pageCreated", tasks[t].arg)>> ELSE <<>>)

\* handleSwitchPage answers its callback when switchToPage has returned
Answered(t, T) ==
  IF T.op = "switchToPage" /\ tasks'[t].op = "idle"
  THEN <<[op |-> "switchPage", target |-> T.arg, success |-> TRUE,
          gone |-> T.arg \notin targets']>>
  ELSE <<>>

\* a reply of the browser resumes task t
ReplyTrace(t) ==
  /\ casting' = CastAfter(Head(wire))
  /\ sent' = sent \o (IF tasks[t].op = "switchToPage" THEN SwitchCalls(1) ELSE <<>>)
  /\ emitted' = emitted \o EmitsOnReply(t)
  /\ replies' = replies \o Answered(t, tasks[t])
  /\ UNCHANGED <<keyVars, snapVars, poolVars>>

\* a client asks for a page switch: one request is observed
RequestTrace(tgt) ==
  /\ replies = <<>>
  /\ \A t \in TaskIds : tasks[t].op # "switchToPage"
  /\ LET h == FirstOf(FreeTasks) IN
     /\ sent' = sent \o SwitchCalls(0)
     /\ replies' = replies \o Answered(h, [Idle EXCEPT !.op = "switchToPage", !.arg = tgt])
  /\ UNCHANGED <<casting, emitted>>
  /\ UNCHANGED <<keyVars, snapVars, poolVars>>

\* what is observed when Target.targetDestroyed arrives: the screencasts of
\* the page end, pageDestroyed is emitted
PageClosedTrace(tgt) ==
  /\ casting' = casting \ {a.sid : a \in {b \in attached : b.target = tgt}}
  /\ emitted' = emitted \o (IF listening
                            THEN emitToViewers(<<Event("browser:pageDestroyed", tgt)>>)
                            ELSE <<>>)
  /\ UNCHANGED <<sent, replies>>
  /\ UNCHANGED <<keyVars, snapVars, poolVars>>

\* a page is closed while another stays open
DestroyedTrace(tgt) == Cardinality(targets) > 1 /\ PageClosedTrace(tgt)

Frames == SelectSeq(emitted, LAMBDA e : e = Frame("screencastFrame"))

\* the 'event' listener of connectToBrowser on a Page.screencastFrame of
\* session sid: handlePageEvent forwards the frame and acknowledges it
ScreencastFrame(sid) ==
  /\ transport = "open"
  /\ sid \in casting \cap AttachedSids
  /\ Len(Frames) < MaxFrames
  /\ sid = sessionId
  /\ emitted' = emitted \o emitToViewers(<<Frame("screencastFrame")>>)
  /\ wire' = (IF browserClient
              THEN Append(wire, Call(Null, "Page.screencastFrameAck", sessionId, Null))
              ELSE wire)
  /\ UNCHANGED <<browserClient, sessionId, targetId, viewerClients, apiClients,
                 screencastStarted, listening, tasks, phase, transport, targets, blank,
                 front, attached, nextSid, nextTarget, cdpError>>
  /\ UNCHANGED <<casting, sent, replies>>
  /\ UNCHANGED <<keyVars, snapVars, poolVars>>
  /\ UNCHANGED registryVars

\* the answer to Page.screencastFrameAck: nobody awaits it, errors are dropped
OnScreencastFrameAck ==
  /\ wire # <<>>
  /\ Head(wire).task = Null
  /\ BrowserStep(Head(wire))
  /\ wire' = Tail(wire)
  /\ UNCHANGED <<browserClient, sessionId, targetId, viewerClients, apiClients,
                 screencastStarted, listening, tasks, phase>>
  /\ UNCHANGED traceVars
  /\ UNCHANGED <<keyVars, snapVars, poolVars>>
  /\ UNCHANGED registryVars

\* a session connected to page p, quiescent
InitSwitch ==
  /\ browserClient = TRUE /\ listening = TRUE /\ phase = "live"
  /\ transport = "open" /\ targets = TargetIds /\ nextTarget = MaxTargets + 1
  /\ blank = {} /\ cdpError = FALSE
  /\ \E p \in TargetIds :
       /\ targetId = p /\ front = p
       /\ attached = {[sid |-> 1, target |-> p, by |-> "cp_attachToTarget"]}
  /\ sessionId = 1 /\ nextSid = 2
  /\ viewerClients \in SUBSET ViewerIds /\ apiClients \in SUBSET ApiIds
  /\ viewerClients \cup apiClients # {}
  /\ screencastStarted = (viewerClients # {})
  /\ casting = (IF viewerClients # {} THEN {1} ELSE {})
  /\ tasks = [t \in TaskIds |-> Idle] /\ wire = <<>>
  /\ sent = <<>> /\ emitted = <<>> /\ replies = <<>>
  /\ KeysIdle
  /\ EventsIdle /\ SnapIdle /\ PoolIdle
  /\ RegistryIdle

NextSwitch ==
  \/ \E tgt \in TargetIds : ClientSwitchToPage(tgt) /\ RequestTrace(tgt) /\ UNCHANGED eventVars
  \/ \E tgt \in TargetIds : EnvTargetDestroyed(tgt) /\ DestroyedTrace(tgt) /\ UNCHANGED eventVars
  \/ \E sid \in 1..MaxSids : ScreencastFrame(sid) /\ UNCHANGED eventVars
  \/ OnScreencastFrameAck /\ UNCHANGED eventVars
  \/ \E t \in TaskIds : OnSwitchStopScreencast(t) /\ ReplyTrace(t) /\ UNCHANGED eventVars
  \/ \E t \in TaskIds : OnSwitchDetach(t) /\ ReplyTrace(t) /\ UNCHANGED eventVars
  \/ \E t \in TaskIds : OnActivateTarget(t) /\ ReplyTrace(t) /\ UNCHANGED eventVars
  \/ \E t \in TaskIds : OnAttachToTarget(t) /\ ReplyTrace(t) /\ UNCHANGED eventVars
  \/ \E t \in TaskIds : OnPageEnable(t) /\ ReplyTrace(t) /\ UNCHANGED eventVars
  \/ \E t \in TaskIds : OnRuntimeEnable(t) /\ ReplyTrace(t) /\ UNCHANGED eventVars
  \/ \E t \in TaskIds : OnGetFrameTree(t) /\ ReplyTrace(t) /\ UNCHANGED eventVars
  \/ \E t \in TaskIds : OnSetDeviceMetricsOverride(t) /\ ReplyTrace(t) /\ UNCHANGED eventVars
  \/ \E t \in TaskIds : OnPageStartScreencast(t) /\ ReplyTrace(t) /\ UNCHANGED eventVars
  \/ \E t \in TaskIds : OnCaptureScreenshot(t) /\ ReplyTrace(t) /\ UNCHANGED eventVars
  \/ \E t \in TaskIds : OnSwitchPageList(t) /\ ReplyTrace(t) /\ UNCHANGED eventVars
  \/ \E t \in TaskIds : OnPageList(t) /\ ReplyTrace(t) /\ UNCHANGED eventVars
  \/ \E t \in TaskIds : OnDestroyedGetTargets(t) /\ ReplyTrace(t) /\ UNCHANGED eventVars

SpecSwitch == InitSwitch /\ [][NextSwitch]_vars

(* ===================== properties of a page switch ===================== *)
\* the requested switch has returned; it wrote commands (the target was not the
\* current page), no command failed, no page was closed, a viewer is attached
SwitchSucceeded ==
  /\ replies # <<>> /\ sent # <<>>
  /\ ~cdpError /\ targets = TargetIds /\ viewerClients # {}

Cmd(m, sid, tgt, ps) == [method |-> m, sid |-> sid, target |-> tgt, params |-> ps]

\* C11: a switch to page P2 with a viewer attached and the screencast running
\* on P1 writes, in this order, Page.stopScreencast and Target.detachFromTarget
\* on the session of P1, Target.activateTarget(P2), Target.attachToTarget(P2,
\* flatten), then on the new session Page.enable, Runtime.enable,
\* Page.getFrameTree, Emulation.setDeviceMetricsOverride, Page.startScreencast
\* and Page.captureScreenshot(jpeg, 60) (and last the Target.getTargets of the
\* page list); afterwards sessionId and targetId name P2 and screencastStarted
\* is true.
C11_SwitchCallOrder ==
  SwitchSucceeded =>
    LET p2 == replies[1].target IN
    /\ sent = << Cmd("Page.stopScreencast", 1, Null, <<>>),
                 Cmd("Target.detachFromTarget", 1, Null, <<>>),
                 Cmd("Target.activateTarget", Null, p2, <<>>),
                 Cmd("Target.attachToTarget", Null, p2, <<"flatten">>),
                 Cmd("Page.enable", sessionId, Null, <<>>),
                 Cmd("Runtime.enable", sessionId, Null, <<>>),
                 Cmd("Page.getFrameTree", sessionId, Null, <<>>),
                 Cmd("Emulation.setDeviceMetricsOverride", sessionId, Null, <<>>),
                 Cmd("Page.startScreencast", sessionId, Null, <<>>),
                 Cmd("Page.captureScreenshot", sessionId, Null, <<"jpeg", 60>>),
                 Cmd("Target.getTargets", Null, Null, <<>>) >>
    /\ sessionId # 1
    /\ [sid |-> sessionId, target |-> p2, by |-> "cp_attachToTarget"] \in attached
    /\ targetId = p2
    /\ screencastStarted

C11_Witness == SwitchSucceeded /\ Len(sent) = 11 /\ screencastStarted /\ targetId = 2

\* C12: during a successful switch to P2 the viewer receives exactly one frame,
\* the pushed screenshot, before pageSwitched(P2), and no other frame from the
\* start of the switch on; the next event that is not a frame is a pageList
\* whose active target is P2.
C12_OneFrameThenPageSwitched ==
  SwitchSucceeded =>
    LET p2 == replies[1].target
        at == {i \in 1..Len(emitted) : emitted[i] = Event("browser:pageSwitched", p2)}
    IN /\ at # {}
       /\ LET i == FirstOf(at)
              rest == SelectSeq(SubSeq(emitted, i + 1, Len(emitted)),
                                LAMBDA e : e.event # "browser:frame")
          IN /\ SubSeq(emitted, 1, i - 1) = <<Frame("captureScreenshot")>>
             /\ rest # <<>>
             /\ rest[1] = Event("browser:pageList", p2)

\* C20: a browser:switchPage whose target is closed before or during the
\* switch is answered {success: false}, and once the session is at rest it is
\* attached to a page that still exists.
C20_DestroyedTargetIsAnError ==
  /\ \A i \in 1..Len(replies) : replies[i].gone => ~replies[i].success
  /\ (replies # <<>> /\ Quiescent /\ ~cdpError)
       => \E a \in PageSessions :
            a.sid = sessionId /\ a.target = targetId /\ targetId \in targets

(* ======================================================================= *)
(* The CDP events of a connected session: pages are created, change and    *)
(* are closed, and the attached CDP sessions send page events, each tagged *)
(* with its session id (browser-level events carry no tag).  received is   *)
(* the order of arrival, emitted what the viewers get.                     *)
(* ======================================================================= *)
MaxEvents == 2
MaxUrls == 2

Urls == 1..MaxUrls

\* the screencast session ids the browser puts in the params of a frame
MaxFrameSids == 2
FrameSids == 1..MaxFrameSids

\* an acknowledgement that carries the id of the page session
screencastFrameAckOfPage(sid, fsid) ==
  [task |-> Null, method |-> "Page.screencastFrameAck", sid |-> sid, target |-> Null,
   frame |-> sid]

\* handlePageEvent, line 358: this.send('Page.screencastFrameAck',
\* {sessionId: frameData.sessionId}) on the page session sid; nothing awaits it
screencastFrameAck(sid, fsid) ==
  [task |-> Null, method |-> "Page.screencastFrameAck", sid |-> sid, target |-> Null,
   frame |-> fsid]

\* a filter that lets the events of every CDP session through
IsTaggedSession(tag) == tag # Null

\* the filter of the 'event' listener, line 262
IsCurrentSession(tag) == tag # Null /\ tag = sessionId

\* the 'event' listener of connectToBrowser, lines 260-265, and handlePageEvent,
\* lines 344-367, on event m of the CDP session tag; top: the frame has no
\* parent; fsid: the sessionId in the params of a screencast frame
PageEvent(m, top, tag, url, fsid) ==
  /\ transport = "open" /\ listening
  /\ Len(received) < MaxEvents
  /\ received' = Append(received,
                        [method |-> m, tag |-> tag, target |-> Null,
                         frame |-> IF m = "Page.screencastFrame" THEN fsid ELSE Null])
  /\ IF IsCurrentSession(tag)
     THEN CASE m = "Page.frameNavigated" /\ top ->
                 /\ currentUrl' = url
                 /\ emitted' = emitted \o emitToViewers(<<Event("browser:urlChanged", url)>>)
                 /\ UNCHANGED wire
            [] m = "Page.screencastFrame" ->
                 /\ emitted' = emitted \o emitToViewers(<<Frame("screencastFrame")>>)
                 /\ wire' = (IF browserClient /\ sessionId # Null
                             THEN Append(wire, screencastFrameAck(sessionId, fsid))
                             ELSE wire)
                 /\ UNCHANGED currentUrl
            [] OTHER -> UNCHANGED <<currentUrl, emitted, wire>>
     ELSE UNCHANGED <<currentUrl, emitted, wire>>
  /\ UNCHANGED <<browserClient, sessionId, targetId, viewerClients, apiClients,
                 screencastStarted, listening, tasks, phase, transport, targets, blank,
                 front, attached, nextSid, nextTarget, cdpError>>
  /\ UNCHANGED <<casting, sent, replies>>
  /\ UNCHANGED <<keyVars, snapVars, poolVars>>
  /\ UNCHANGED registryVars

\* the Target.targetInfoChanged listener, lines 303-313, up to the await of
\* emitPageList
EnvTargetInfoChanged(tgt) ==
  /\ transport = "open" /\ listening
  /\ tgt \in targets
  /\ FreeTasks # {}
  /\ Len(received) < MaxEvents
  /\ received' = Append(received, [method |-> "Target.targetInfoChanged", tag |-> Null,
                                    target |-> tgt])
  /\ emitted' = emitted \o emitToViewers(<<Event("browser:pageInfoChanged", tgt)>>)
  /\ LET h == FirstOf(FreeTasks)
         T == [Idle EXCEPT !.op = "targetInfoChanged", !.arg = tgt]
         r == IF browserClient
              THEN Goto(T, "h_getTargets", Call(h, "Target.getTargets", Null, Null))
              ELSE Finished
     IN /\ tasks' = [tasks EXCEPT ![h] = r.task]
        /\ wire' = wire \o r.calls
  /\ UNCHANGED <<browserClient, sessionId, targetId, viewerClients, apiClients,
                 screencastStarted, listening, phase, transport, targets, blank,
                 front, attached, nextSid, nextTarget, cdpError>>
  /\ UNCHANGED <<casting, sent, replies, currentUrl>>
  /\ UNCHANGED <<keyVars, snapVars, poolVars>>
  /\ UNCHANGED registryVars

\* what is observed when Target.targetCreated arrives: pageCreated is emitted
\* once switchToPage has returned to the listener
CreatedTrace ==
  /\ received' = Append(received, [method |-> "Target.targetCreated", tag |-> Null,
                                    target |-> nextTarget, page |-> TRUE])
  /\ emitted' = emitted \o emitToViewers(
                   IF tasks'[FirstOf(FreeTasks)].pc \in {"h_getTargets", "idle"}
                   THEN <<Event("browser:pageCreated", nextTarget)>> ELSE <<>>)
  /\ UNCHANGED <<casting, sent, replies, currentUrl>>
  /\ UNCHANGED <<keyVars, snapVars, poolVars>>

\* the Target.targetCreated listener, line 269, on a target that is not a
\* page (a worker, an iframe): the event is dropped
EnvOtherTargetCreated ==
  /\ transport = "open" /\ listening
  /\ Len(received) < MaxEvents
  /\ received' = Append(received, [method |-> "Target.targetCreated", tag |-> Null,
                                    target |-> Null, page |-> FALSE])
  /\ UNCHANGED <<sessionVars, registryVars, traceVars, keyVars, snapVars, poolVars, currentUrl>>

\* a session connected to its only page, quiescent
InitEvents ==
  /\ browserClient = TRUE /\ listening = TRUE /\ phase = "live"
  /\ transport = "open" /\ targets = {1} /\ nextTarget = 2
  /\ blank = {} /\ front = 1 /\ cdpError = FALSE
  /\ targetId = 1 /\ sessionId = 1 /\ nextSid = 2
  /\ attached = {[sid |-> 1, target |-> 1, by |-> "cp_attachToTarget"]}
  /\ viewerClients \in SUBSET ViewerIds /\ apiClients \in SUBSET ApiIds
  /\ viewerClients \cup apiClients # {}
  /\ screencastStarted = (viewerClients # {})
  /\ casting = (IF viewerClients # {} THEN {1} ELSE {})
  /\ tasks = [t \in TaskIds |-> Idle] /\ wire = <<>>
  /\ sent = <<>> /\ emitted = <<>> /\ replies = <<>>
  /\ KeysIdle
  /\ currentUrl \in Urls /\ received = <<>>
  /\ SnapIdle /\ PoolIdle
  /\ RegistryIdle

NextEvents ==
  \/ EnvTargetCreated /\ CreatedTrace
  \/ EnvOtherTargetCreated
  \/ \E tgt \in TargetIds :
       /\ EnvTargetDestroyed(tgt) /\ DestroyedTrace(tgt)
       /\ received' = Append(received, [method |-> "Target.targetDestroyed", tag |-> Null,
                                         target |-> tgt])
       /\ UNCHANGED currentUrl
  \/ \E tgt \in TargetIds : EnvTargetInfoChanged(tgt)
  \/ \E m \in {"Page.frameNavigated", "Page.screencastFrame",
                "Page.screencastVisibilityChanged"},
        top \in BOOLEAN, tag \in {Null} \cup (1..(nextSid - 1)), url \in Urls,
        fsid \in FrameSids :
       PageEvent(m, top, tag, url, fsid)
  \/ OnScreencastFrameAck /\ UNCHANGED eventVars
  \/ \E t \in TaskIds : OnSwitchStopScreencast(t) /\ ReplyTrace(t) /\ UNCHANGED eventVars
  \/ \E t \in TaskIds : OnSwitchDetach(t) /\ ReplyTrace(t) /\ UNCHANGED eventVars
  \/ \E t \in TaskIds : OnActivateTarget(t) /\ ReplyTrace(t) /\ UNCHANGED eventVars
  \/ \E t \in TaskIds : OnAttachToTarget(t) /\ ReplyTrace(t) /\ UNCHANGED eventVars
  \/ \E t \in TaskIds : OnPageEnable(t) /\ ReplyTrace(t) /\ UNCHANGED eventVars
  \/ \E t \in TaskIds : OnRuntimeEnable(t) /\ ReplyTrace(t) /\ UNCHANGED eventVars
  \/ \E t \in TaskIds, url \in Urls :
       /\ OnGetFrameTree(t) /\ ReplyTrace(t)
       /\ currentUrl' = (IF Ok THEN url ELSE currentUrl)
       /\ UNCHANGED received
  \/ \E t \in TaskIds : OnSetDeviceMetricsOverride(t) /\ ReplyTrace(t) /\ UNCHANGED eventVars
  \/ \E t \in TaskIds : OnPageStartScreencast(t) /\ ReplyTrace(t) /\ UNCHANGED eventVars
  \/ \E t \in TaskIds : OnCaptureScreenshot(t) /\ ReplyTrace(t) /\ UNCHANGED eventVars
  \/ \E t \in TaskIds : OnSwitchPageList(t) /\ ReplyTrace(t) /\ UNCHANGED eventVars
  \/ \E t \in TaskIds : OnPageList(t) /\ ReplyTrace(t) /\ UNCHANGED eventVars
  \/ \E t \in TaskIds : OnDestroyedGetTargets(t) /\ ReplyTrace(t) /\ UNCHANGED eventVars

SpecEvents == InitEvents /\ [][NextEvents]_vars

(* ======================== properties of the events ===================== *)
\* C30: a CDP event is handled (currentUrl updated, urlChanged or frame
\* emitted, frame acknowledged) only if its sessionId tag equals the current
\* sessionId of the session: an event that is untagged or tagged with another
\* session id leaves currentUrl alone, emits no urlChanged and no frame, and
\* writes no Page.screencastFrameAck.
C30_OnlyCurrentSessionEvents ==
  [][Len(received') = Len(received) + 1
       => LET ev == received'[Len(received')]
              news == SubSeq(emitted', Len(emitted) + 1, Len(emitted'))
              calls == SubSeq(wire', Len(wire) + 1, Len(wire'))
          IN ~(ev.tag # Null /\ ev.tag = sessionId)
               => /\ currentUrl' = currentUrl
                  /\ \A i \in 1..Len(news) :
                       news[i].event \notin {"browser:urlChanged", "browser:frame"}
                  /\ \A i \in 1..Len(calls) :
                       calls[i].method # "Page.screencastFrameAck"]_vars

\* the session has switched to the page of CDP session 2, and a screencast
\* frame of the previous page (CDP session 1) has arrived since: no screencast
\* frame went to the viewers
C30_Witness ==
  /\ sessionId = 2 /\ viewerClients # {}
  /\ \E i \in 1..Len(received) :
       received[i].method = "Page.screencastFrame" /\ received[i].tag = 1
  /\ \A i \in 1..Len(emitted) : emitted[i].origin # "screencastFrame"

\* C31: a Page.screencastFrame handled for the active session is emitted to
\* the viewers and followed by exactly one Page.screencastFrameAck, sent on
\* the active page session and carrying the sessionId of the params of the
\* frame (not the id of the page session); the answer to the acknowledgement,
\* a failure included, emits nothing and resumes nothing.
C31_FrameIsEmittedAndAcked ==
  [][/\ (/\ Len(received') = Len(received) + 1
         /\ received'[Len(received')].method = "Page.screencastFrame"
         /\ received'[Len(received')].tag # Null
         /\ received'[Len(received')].tag = sessionId)
          => /\ emitted' = (IF viewerClients = {} THEN emitted
                            ELSE Append(emitted, Frame("screencastFrame")))
             /\ Len(wire') = Len(wire) + 1
             /\ wire'[Len(wire')].method = "Page.screencastFrameAck"
             /\ wire'[Len(wire')].task = Null
             /\ wire'[Len(wire')].sid = sessionId
             /\ wire'[Len(wire')].frame = received'[Len(received')].frame
             /\ SubSeq(wire', 1, Len(wire)) = wire
     /\ (/\ wire # <<>> /\ Head(wire).method = "Page.screencastFrameAck"
         /\ wire' = Tail(wire))
          => /\ emitted' = emitted /\ tasks' = tasks
             /\ sessionId' = sessionId /\ targetId' = targetId]_vars

\* a frame of screencast session 2 was handled on page session 1 with a
\* viewer attached; a CDP command has failed since and no browser:error was
\* emitted
C31_Witness ==
  /\ viewerClients # {} /\ cdpError /\ wire = <<>>
  /\ \E i \in 1..Len(received) :
       /\ received[i].method = "Page.screencastFrame"
       /\ received[i].tag = 1 /\ received[i].frame = 2
  /\ \E i \in 1..Len(emitted) : emitted[i] = Frame("screencastFrame")
  /\ \A i \in 1..Len(emitted) : emitted[i].event # "browser:error"

\* the targetCreated listener of task t has its switchToPage return in this step
CreatedSwitchReturns(t) ==
  /\ tasks[t].op = "targetCreated" /\ tasks[t].pc # "h_getTargets"
  /\ tasks'[t].pc \in {"h_getTargets", "idle"}

C25_EventsInArrivalOrder ==
  \A i, j \in 1..Len(emitted) :
    (/\ i < j
     /\ emitted[j].event = "browser:pageCreated"
     /\ emitted[i].event \in {"browser:pageInfoChanged", "browser:pageDestroyed"})
      => emitted[i].arg # emitted[j].arg

(* ======================================================================= *)
(* A page of the session is closed: the Target.targetDestroyed listener    *)
(* of connectToBrowser under a fair browser and a fair event loop          *)
(* ======================================================================= *)
InitDestroy ==
  /\ InitEvents
  /\ viewerClients # {}

\* the browser closes page tgt, the last page included
PageDestroyed(tgt) ==
  /\ EnvTargetDestroyed(tgt) /\ PageClosedTrace(tgt)
  /\ received' = Append(received, [method |-> "Target.targetDestroyed", tag |-> Null,
                                    target |-> tgt])
  /\ UNCHANGED currentUrl

\* createNewPage of the targetDestroyed listener: the reply of
\* Target.createTarget, before which Target.targetCreated has reached its listener
CreateNewPageReply(t) ==
  /\ OnCreateNewPage(t) /\ ReplyTrace(t)
  /\ received' = (IF Ok
                  THEN Append(received, [method |-> "Target.targetCreated", tag |-> Null,
                                         target |-> nextTarget, page |-> TRUE])
                  ELSE received)
  /\ UNCHANGED currentUrl

\* the browser answers the oldest command and the task awaiting it resumes
ReplyDestroy ==
  \/ \E t \in TaskIds : OnSwitchStopScreencast(t) /\ ReplyTrace(t) /\ UNCHANGED eventVars
  \/ \E t \in TaskIds : OnSwitchDetach(t) /\ ReplyTrace(t) /\ UNCHANGED eventVars
  \/ \E t \in TaskIds : OnActivateTarget(t) /\ ReplyTrace(t) /\ UNCHANGED eventVars
  \/ \E t \in TaskIds : OnAttachToTarget(t) /\ ReplyTrace(t) /\ UNCHANGED eventVars
  \/ \E t \in TaskIds : OnPageEnable(t) /\ ReplyTrace(t) /\ UNCHANGED eventVars
  \/ \E t \in TaskIds : OnRuntimeEnable(t) /\ ReplyTrace(t) /\ UNCHANGED eventVars
  \/ \E t \in TaskIds, url \in Urls :
       /\ OnGetFrameTree(t) /\ ReplyTrace(t)
       /\ currentUrl' = (IF Ok THEN url ELSE currentUrl)
       /\ UNCHANGED received
  \/ \E t \in TaskIds : OnSetDeviceMetricsOverride(t) /\ ReplyTrace(t) /\ UNCHANGED eventVars
  \/ \E t \in TaskIds : OnPageStartScreencast(t) /\ ReplyTrace(t) /\ UNCHANGED eventVars
  \/ \E t \in TaskIds : OnCaptureScreenshot(t) /\ ReplyTrace(t) /\ UNCHANGED eventVars
  \/ \E t \in TaskIds : OnSwitchPageList(t) /\ ReplyTrace(t) /\ UNCHANGED eventVars
  \/ \E t \in TaskIds : OnPageList(t) /\ ReplyTrace(t) /\ UNCHANGED eventVars
  \/ \E t \in TaskIds : OnDestroyedGetTargets(t) /\ ReplyTrace(t) /\ UNCHANGED eventVars
  \/ \E t \in TaskIds : CreateNewPageReply(t)

NextDestroy ==
  \/ EnvTargetCreated /\ CreatedTrace
  \/ \E tgt \in TargetIds : PageDestroyed(tgt)
  \/ ReplyDestroy

\* every command on the WebSocket is answered and every continuation runs
SpecDestroy == InitDestroy /\ [][NextDestroy]_vars /\ WF_vars(ReplyDestroy)

(* ===================== properties of a closed page ===================== *)
\* the session is attached to a page that is open and is not page d
AttachedToLivePage(d) ==
  /\ targetId # d /\ targetId \in targets
  /\ \E a \in attached : a.sid = sessionId /\ a.target = targetId

\* a CDP error has been reported to the viewers (the catch of switchToPage)
ErrorReported == \E i \in 1..Len(emitted) : emitted[i].event = "browser:error"

\* the browser of the model has no session id or target id left for the
\* command it has to answer
IdsExhausted ==
  /\ wire # <<>>
  /\ \/ Head(wire).method = "Target.attachToTarget" /\ Ok /\ nextSid > MaxSids
     \/ Head(wire).method = "Target.createTarget" /\ Ok /\ nextTarget > MaxTargets

\* the step is the arrival of Target.targetDestroyed for page tgt
DestroyedArrives(tgt) ==
  /\ Len(received') = Len(received) + 1
  /\ received'[Len(received')].method = "Target.targetDestroyed"
  /\ received'[Len(received')].target = tgt

\* C33: on Target.targetDestroyed pageDestroyed is emitted to the viewers;
\* if the destroyed target was the active one the listener asks for the
\* targets and switches to the first remaining page, or creates a new page
\* when none remains, so that, unless a CDP error is reported, the session
\* is eventually attached to an open page other than the destroyed one
\* (the browser answers every command, every continuation runs); if the
\* destroyed target was not the active one, the listener only emits the page
\* list and sessionId and targetId do not change.
C33_DestroyedActivePageIsReplaced ==
  /\ [][\A tgt \in TargetIds : DestroyedArrives(tgt) =>
          LET h == FirstOf(FreeTasks) IN
          /\ emitted' = Append(emitted, Event("browser:pageDestroyed", tgt))
          /\ sessionId' = sessionId /\ targetId' = targetId
          /\ tasks'[h].op = "targetDestroyed"
          /\ tasks'[h].pc = (IF tgt = targetId THEN "td_getTargets" ELSE "h_getTargets")]_vars
  /\ [][\A t \in TaskIds :
          /\ tasks[t].op = "targetDestroyed"
          /\ tasks'[t] # tasks[t]
          => /\ tasks[t].pc = "h_getTargets" =>
                  sessionId' = sessionId /\ targetId' = targetId
             /\ tasks[t].pc = "td_getTargets" /\ targets # {} =>
                  \/ tasks'[t].arg = FirstOf(targets)
                       /\ tasks'[t].pc \in {"sw_stopScreencast", "sw_activateTarget"}
                  \/ targetId = FirstOf(targets) /\ tasks'[t].pc = "h_getTargets"
             /\ tasks[t].pc = "td_getTargets" /\ targets = {} =>
                  /\ tasks'[t].pc = "td_createTarget"
                  /\ wire'[Len(wire')].method = "Target.createTarget"]_vars
  /\ \A d \in TargetIds :
       (targetId = d /\ d \notin targets)
         ~> (AttachedToLivePage(d) \/ ErrorReported \/ IdsExhausted)

\* the last page was closed while it was the active one and, without any
\* reported error, the session is attached to the page created in its place
C33_Witness ==
  /\ 1 \notin targets /\ AttachedToLivePage(1) /\ ~ErrorReported
  /\ received # <<>> /\ received[1].method = "Target.targetDestroyed"
  /\ received[1].target = 1
  /\ Quiescent

(* ============ keyboard input and request-reply actions ================= *)
(* The clients' calls on one session, made one after the other: each call  *)
(* is invoked when the one before it has returned.  The browser answers    *)
(* every command unless the CDP channel has dropped.                       *)
MaxShortScript == 2
MaxKeyCalls == 4

\* the one frame of this specification; the session's own tasks are 1..MaxTasks
InputTask == MaxTasks + 1

ModifierFlags == {"alt", "ctrl", "meta", "shift"}
MODIFIER_KEYS == {"Control", "Alt", "Shift"}
RequestOps == {"navigate", "goBack", "goForward", "reload", "clickAt", "click", "fill",
               "getSnapshot", "getScreenshot"}

\* utils: getModifierFlags(modifiers)
getModifierFlags(m) ==
  (IF "alt" \in m THEN 1 ELSE 0) + (IF "ctrl" \in m THEN 2 ELSE 0)
    + (IF "meta" \in m THEN 4 ELSE 0) + (IF "shift" \in m THEN 8 ELSE 0)

getCurrentModifierFlags(pm) ==
  getModifierFlags((IF "Control" \in pm THEN {"ctrl"} ELSE {})
                     \cup (IF "Alt" \in pm THEN {"alt"} ELSE {})
                     \cup (IF "Shift" \in pm THEN {"shift"} ELSE {}))

\* key.length === 1
IsCharNever(key) == FALSE

IsChar(key) == key \in {"a", "c"}

\* one CDP command of an action: a method, and the fields of a key event
Step(method) ==
  [method |-> method, type |-> "", key |-> "", modifiers |-> 0, mouse |-> <<>>]

KeyEvent(type, key, flags) ==
  [method |-> "Input.dispatchKeyEvent", type |-> type, key |-> key, modifiers |-> flags,
   mouse |-> <<>>]

\* click, lines 1211-1224: a left button event with clickCount 1 at <<x, y>>
MouseEvent(type, at) ==
  [method |-> "Input.dispatchMouseEvent", type |-> type, key |-> "", modifiers |-> 0,
   mouse |-> <<at[1], at[2], "left", 1>>]

InputCall(st, sid) ==
  [task |-> InputTask, method |-> st.method, sid |-> sid, target |-> Null,
   type |-> st.type, key |-> st.key, modifiers |-> st.modifiers, mouse |-> st.mouse]

\* the elements a click names by backendNodeId, and what the page answers to
\* DOM.getBoxModel for each: no model, a model without content, or the quad
\* [x1, y1, x2, y2, x3, y3, x4, y4] of the content box
Elements == {"nomodel", "nocontent", "rect", "skew"}

getBoxModel(el) ==
  CASE el = "nomodel" -> [model |-> FALSE, hasContent |-> FALSE, content |-> <<>>]
    [] el = "nocontent" -> [model |-> TRUE, hasContent |-> FALSE, content |-> <<>>]
    [] el = "rect" -> [model |-> TRUE, hasContent |-> TRUE,
                       content |-> <<1, 1, 5, 1, 5, 3, 1, 3>>]
    [] OTHER -> [model |-> TRUE, hasContent |-> TRUE,
                 content |-> <<0, 0, 8, 0, 8, 4, 4, 4>>]

\* a click at the first corner of the quad
centerFirstCorner(content) == <<content[1], content[2]>>

\* click, lines 1202-1204: centerX, centerY
center(content) ==
  <<(content[1] + content[3] + content[5] + content[7]) \div 4,
    (content[2] + content[4] + content[6] + content[8]) \div 4>>

\* the CDP commands of the request-reply actions, in the order of their awaits;
\* more: the history has an entry to go to / options.fullPage
ActionScript(op, more) ==
  CASE op = "navigate" -> <<Step("Page.navigate")>>
    [] op \in {"goBack", "goForward"} ->
         <<Step("Page.getNavigationHistory")>>
           \o (IF more THEN <<Step("Page.navigateToHistoryEntry")>> ELSE <<>>)
    [] op = "reload" -> <<Step("Page.reload")>>
    [] op = "clickAt" -> <<Step("Input.dispatchMouseEvent"), Step("Input.dispatchMouseEvent")>>
    [] op = "click" -> <<Step("DOM.enable"), Step("DOM.getBoxModel")>>
    [] op = "fill" -> <<Step("DOM.enable"), Step("DOM.focus"),
                        KeyEvent("keyDown", "a", 2), KeyEvent("keyUp", "a", 2),
                        KeyEvent("keyDown", "Backspace", 0), KeyEvent("keyUp", "Backspace", 0),
                        Step("Input.insertText")>>
    [] op = "getSnapshot" -> <<Step("Accessibility.enable"), Step("Accessibility.getFullAXTree")>>
    [] op = "getScreenshot" ->
         (IF more THEN <<Step("Page.getLayoutMetrics")>> ELSE <<>>)
           \o <<Step("Page.captureScreenshot")>>
    [] OTHER -> <<>>

\* the call returns; a request-reply handler then answers its client
Return(F, pm, ok, msg, failed, ev) ==
  [call |-> CallIdle, calls |-> <<>>, pressed |-> pm,
   reply |-> (IF F.op \in RequestOps
              THEN <<[op |-> F.op, success |-> ok, message |-> msg,
                      failed |-> failed, late |-> F.late]>>
              ELSE <<>>),
   emits |-> emitToViewers(ev)]

\* the call suspends at await pc, having written command st to the WebSocket
Await(F, pc, st, pm) ==
  [call |-> [F EXCEPT !.pc = pc], calls |-> <<InputCall(st, sessionId)>>, pressed |-> pm,
   reply |-> <<>>, emits |-> <<>>]

\* an exception reaches the catch of the action
Caught(F, pm, msg, failed) ==
  CASE F.op \in {"click", "fill"} -> Return(F, pm, FALSE, msg, failed, <<>>)
    [] F.op = "getSnapshot" -> Return(F, pm, FALSE, "Failed to get snapshot", failed, <<>>)
    [] F.op = "getScreenshot" -> Return(F, pm, FALSE, "Failed to get screenshot", failed, <<>>)
    [] F.op = "navigate" ->
         Return(F, pm, TRUE, "", failed, <<[event |-> "browser:error", arg |-> msg,
                                            origin |-> "session"]>>)
    [] OTHER -> Return(F, pm, TRUE, "", failed, <<>>)

\* this.send(...) of the action, suspended at pc
dispatch(F, pc, st, pm) ==
  IF browserClient /\ sessionId # Null THEN Await(F, pc, st, pm)
  ELSE Caught(F, pm, "Browser not connected", FALSE)

(* keyDown, lines 654-696 *)
keyDownPrimary(F, pm) ==
  dispatch(F, "kd_primary", KeyEvent("keyDown", F.key, getModifierFlags(F.m)), pm)

keyDownShift(F, pm) ==
  IF "shift" \in F.m /\ "Shift" \notin pm
  THEN dispatch(F, "kd_Shift", KeyEvent("keyDown", "Shift", getCurrentModifierFlags(pm)), pm)
  ELSE keyDownPrimary(F, pm)

keyDownAlt(F, pm) ==
  IF "alt" \in F.m /\ "Alt" \notin pm
  THEN dispatch(F, "kd_Alt", KeyEvent("keyDown", "Alt", getCurrentModifierFlags(pm)), pm)
  ELSE keyDownShift(F, pm)

keyDown(F, pm) ==
  IF sessionId = Null THEN Return(F, pm, TRUE, "", FALSE, <<>>)
  ELSE IF ("ctrl" \in F.m \/ "meta" \in F.m) /\ "Control" \notin pm
       THEN dispatch(F, "kd_Control", KeyEvent("keyDown", "Control", 0), pm)
       ELSE keyDownAlt(F, pm)

(* keyUp, lines 701-733: the modifier is deleted before its keyUp is sent *)
keyUpControl(F, pm) ==
  IF ~("ctrl" \in F.m \/ "meta" \in F.m) /\ "Control" \in pm
  THEN dispatch(F, "ku_Control", KeyEvent("keyUp", "Control", 0), pm \ {"Control"})
  ELSE Return(F, pm, TRUE, "", FALSE, <<>>)

keyUpAlt(F, pm) ==
  IF "alt" \notin F.m /\ "Alt" \in pm
  THEN dispatch(F, "ku_Alt", KeyEvent("keyUp", "Alt", getCurrentModifierFlags(pm \ {"Alt"})),
                pm \ {"Alt"})
  ELSE keyUpControl(F, pm)

\* a release of Shift whatever the flags say
keyUpShiftAlways(F, pm) ==
  IF "Shift" \in pm
  THEN dispatch(F, "ku_Shift",
                KeyEvent("keyUp", "Shift", getCurrentModifierFlags(pm \ {"Shift"})),
                pm \ {"Shift"})
  ELSE keyUpAlt(F, pm)

keyUpShift(F, pm) ==
  IF "shift" \notin F.m /\ "Shift" \in pm
  THEN dispatch(F, "ku_Shift",
                KeyEvent("keyUp", "Shift", getCurrentModifierFlags(pm \ {"Shift"})),
                pm \ {"Shift"})
  ELSE keyUpAlt(F, pm)

keyUp(F, pm) ==
  IF sessionId = Null THEN Return(F, pm, TRUE, "", FALSE, <<>>)
  ELSE dispatch(F, "ku_primary", KeyEvent("keyUp", F.key, getModifierFlags(F.m)), pm)

(* navigate .. getScreenshot and their handlers in BaseClient and ApiClient *)
\* click, lines 1196-1217: DOM.getBoxModel was answered for element F.key
click(F, pm) ==
  LET boxModel == getBoxModel(F.key) IN
  IF ~boxModel.model \/ ~boxModel.hasContent
  THEN Caught(F, pm, "Element with backendNodeId " \o F.key
                       \o " not found or has no box model", FALSE)
  ELSE dispatch(F, "ck_mousePressed",
                MouseEvent("mousePressed", center(boxModel.content)), pm)

\* the next this.send of the action, or its normal end
requestNext(F, pm) ==
  LET s == ActionScript(F.op, F.more) IN
  IF F.n = Len(s)
  THEN IF F.op = "click" THEN click(F, pm) ELSE Return(F, pm, TRUE, "", FALSE, <<>>)
  ELSE dispatch([F EXCEPT !.n = F.n + 1], "rq", s[F.n + 1], pm)

\* the action up to its first await: the guard on this.sessionId
request(F, pm) ==
  IF sessionId # Null THEN requestNext(F, pm)
  ELSE CASE F.op = "navigate" ->
              Return(F, pm, TRUE, "", FALSE,
                     <<[event |-> "browser:error", arg |-> "Browser not connected",
                        origin |-> "session"]>>)
         [] F.op = "getSnapshot" -> Return(F, pm, FALSE, "Failed to get snapshot", FALSE, <<>>)
         [] F.op = "getScreenshot" ->
              Return(F, pm, FALSE, "Failed to get screenshot", FALSE, <<>>)
         [] OTHER -> Return(F, pm, TRUE, "", FALSE, <<>>)

\* the call resumes with the answer to the command it awaits
Resumed(F, pm, ok) ==
  CASE ~ok -> Caught(F, pm, "cdp error", TRUE)
    [] F.pc = "kd_Control" -> keyDownAlt(F, pm \cup {"Control"})
    [] F.pc = "kd_Alt" -> keyDownShift(F, pm \cup {"Alt"})
    [] F.pc = "kd_Shift" -> keyDownPrimary(F, pm \cup {"Shift"})
    [] F.pc = "kd_primary" ->
         IF IsChar(F.key)
         THEN dispatch(F, "kd_char", KeyEvent("char", F.key, getModifierFlags(F.m)), pm)
         ELSE Return(F, pm, TRUE, "", FALSE, <<>>)
    [] F.pc = "ku_primary" -> keyUpShift(F, pm)
    [] F.pc = "ku_Shift" -> keyUpAlt(F, pm)
    [] F.pc = "ku_Alt" -> keyUpControl(F, pm)
    [] F.pc = "rq" -> requestNext(F, pm)
    [] F.pc = "ck_mousePressed" ->
         dispatch(F, "ck_mouseReleased",
                  MouseEvent("mouseReleased", center(getBoxModel(F.key).content)), pm)
    [] OTHER -> Return(F, pm, TRUE, "", FALSE, <<>>)

\* the browser's view of the modifier keys of a page session
KeyboardAfter(c) ==
  IF c.method = "Input.dispatchKeyEvent" /\ BrowserOk(c) /\ c.key \in MODIFIER_KEYS
  THEN IF c.type = "keyDown" THEN keysDown \cup {<<c.sid, c.key>>}
       ELSE keysDown \ {<<c.sid, c.key>>}
  ELSE keysDown

\* the state after one synchronous stretch r of the call
Ran(r, popped) ==
  /\ call' = r.call
  /\ pressedModifiers' = r.pressed
  /\ wire' = SubSeq(wire, popped + 1, Len(wire)) \o r.calls
  /\ sent' = sent \o r.calls
  /\ emitted' = emitted \o r.emits
  /\ replies' = replies \o r.reply

\* the next call of the script is made: it runs to its first await
Invoke(item) ==
  /\ phase = "live"
  /\ call.op = "idle"
  /\ script # <<>> /\ item = Head(script)
  /\ script' = Tail(script)
  /\ done' = Append(done, item)
  /\ LET F == [CallIdle EXCEPT !.op = item.op, !.key = item.key, !.m = item.m,
                               !.more = item.more, !.late = (transport # "open")]
     IN Ran(CASE item.op = "keyDown" -> keyDown(F, pressedModifiers)
              [] item.op = "keyUp" -> keyUp(F, pressedModifiers)
              [] OTHER -> request(F, pressedModifiers), 0)
  /\ UNCHANGED <<browserClient, sessionId, targetId, viewerClients, apiClients,
                 screencastStarted, listening, tasks, phase, transport, targets, blank,
                 front, attached, nextSid, nextTarget, cdpError>>
  /\ UNCHANGED <<casting, keysDown>>
  /\ UNCHANGED registryVars

\* ViewerClient.handleKeyDown
ViewerKeyDown(item) == item.op = "keyDown" /\ viewerClients # {} /\ Invoke(item)

\* ViewerClient.handleKeyUp
ViewerKeyUp(item) == item.op = "keyUp" /\ viewerClients # {} /\ Invoke(item)

\* a request-reply handler of BaseClient or ApiClient
ClientRequest(item) == item.op \in RequestOps /\ apiClients # {} /\ Invoke(item)

\* the browser answers the command the call awaits
OnInputReply ==
  /\ wire # <<>>
  /\ Head(wire).task = InputTask
  /\ call.op # "idle"
  /\ BrowserStep(Head(wire))
  /\ keysDown' = KeyboardAfter(Head(wire))
  /\ Ran(Resumed(call, pressedModifiers, Ok), 1)
  /\ UNCHANGED <<browserClient, sessionId, targetId, viewerClients, apiClients,
                 screencastStarted, listening, tasks, phase>>
  /\ UNCHANGED <<casting, script, done>>
  /\ UNCHANGED registryVars

\* the WebSocket to the browser drops; connectToBrowser registered no listener for it
ChannelDrop ==
  /\ transport = "open"
  /\ transport' = "closed"
  /\ attached' = {} /\ casting' = {} /\ keysDown' = {}
  /\ UNCHANGED <<browserClient, sessionId, targetId, viewerClients, apiClients,
                 screencastStarted, listening, tasks, wire, phase, targets, blank,
                 front, nextSid, nextTarget, cdpError>>
  /\ UNCHANGED <<sent, emitted, replies, pressedModifiers, call, script, done>>
  /\ UNCHANGED registryVars

KeyInputs(ks, ms) ==
  {[op |-> o, key |-> k, m |-> m, more |-> FALSE] :
     o \in {"keyDown", "keyUp"}, k \in ks, m \in ms}

Requests ==
  {[op |-> o, key |-> "", m |-> {}, more |-> b] : o \in RequestOps \ {"click"}, b \in {FALSE}}
    \cup {[op |-> o, key |-> "", m |-> {}, more |-> TRUE] :
            o \in {"goBack", "goForward", "getScreenshot"}}
    \cup {[op |-> "click", key |-> el, m |-> {}, more |-> FALSE] : el \in Elements}

\* short scripts over a named key with every modifiers struct and over the
\* requests, long ones over two character keys with and without ctrl
Scripts ==
  UNION {[1..k -> KeyInputs({"Enter"}, SUBSET ModifierFlags) \cup Requests] :
           k \in 1..MaxShortScript}
    \cup [1..MaxKeyCalls -> KeyInputs({"a", "c"}, {{}, {"ctrl"}})]

\* a live session with a viewer and an API client, attached to a page or to none
InitInput ==
  /\ browserClient = TRUE /\ listening = TRUE /\ phase = "live"
  /\ transport = "open" /\ targets = {1} /\ nextTarget = 2
  /\ blank = {} /\ front = 1 /\ cdpError = FALSE
  /\ \E page \in BOOLEAN :
       /\ sessionId = (IF page THEN 1 ELSE Null)
       /\ targetId = (IF page THEN 1 ELSE Null)
       /\ attached = (IF page THEN {[sid |-> 1, target |-> 1, by |-> "cp_attachToTarget"]}
                      ELSE {})
       /\ screencastStarted = page
       /\ casting = (IF page THEN {1} ELSE {})
  /\ nextSid = 2
  /\ viewerClients = ViewerIds /\ apiClients = ApiIds
  /\ tasks = [t \in TaskIds |-> Idle] /\ wire = <<>>
  /\ sent = <<>> /\ emitted = <<>> /\ replies = <<>>
  /\ pressedModifiers = {} /\ call = CallIdle /\ keysDown = {}
  /\ script \in Scripts /\ done = <<>>
  /\ EventsIdle /\ SnapIdle /\ PoolIdle
  /\ RegistryIdle

NextInput ==
  \/ script # <<>> /\ ViewerKeyDown(Head(script)) /\ UNCHANGED <<eventVars, snapVars, poolVars>>
  \/ script # <<>> /\ ViewerKeyUp(Head(script)) /\ UNCHANGED <<eventVars, snapVars, poolVars>>
  \/ script # <<>> /\ ClientRequest(Head(script)) /\ UNCHANGED <<eventVars, snapVars, poolVars>>
  \/ OnInputReply /\ UNCHANGED <<eventVars, snapVars, poolVars>>
  \/ ChannelDrop /\ UNCHANGED <<eventVars, snapVars, poolVars>>

SpecInput == InitInput /\ [][NextInput]_vars

(* ============== properties of the keyboard and of the replies ========== *)
\* the modifier keys a modifiers struct asks for (Control stands for ctrl and meta)
Wanted(m) ==
  (IF "ctrl" \in m \/ "meta" \in m THEN {"Control"} ELSE {})
    \cup (IF "alt" \in m THEN {"Alt"} ELSE {})
    \cup (IF "shift" \in m THEN {"Shift"} ELSE {})

\* the last call made has returned
CallReturned == done # <<>> /\ call.op = "idle"

\* the modifier keys named by the flags of a key event
FlagKeys(f) ==
  (IF f % 2 = 1 THEN {"Alt"} ELSE {})
    \cup (IF (f \div 2) % 2 = 1 THEN {"Control"} ELSE {})
    \cup (IF (f \div 4) % 2 = 1 THEN {"Meta"} ELSE {})
    \cup (IF (f \div 8) % 2 = 1 THEN {"Shift"} ELSE {})

\* the key events written to the WebSocket, in order
KeyLog == [i \in 1..Len(sent) |-> <<sent[i].type, sent[i].key, sent[i].modifiers>>]

KeyCall(op, key, m) == [op |-> op, key |-> key, m |-> m, more |-> FALSE]

\* C13: after keyDown(key, code, modifiers) has returned, pressedModifiers
\* contains Control if ctrl or meta is set, Alt if alt is set and Shift if shift
\* is set, whatever happened inside the call.
C13_KeyDownPressesModifiers ==
  (CallReturned /\ done[Len(done)].op = "keyDown")
    => Wanted(done[Len(done)].m) \subseteq pressedModifiers

\* C14: after keyUp(key, code, modifiers) has returned, pressedModifiers holds
\* only modifiers whose flag is set in the modifiers passed.
C14_KeyUpReleasesModifiers ==
  (CallReturned /\ done[Len(done)].op = "keyUp")
    => pressedModifiers \subseteq Wanted(done[Len(done)].m)

\* keyDown(k, c, m) then keyUp(k, c, m) were the two calls made, and both returned
DownThenUp ==
  /\ CallReturned /\ Len(done) = 2
  /\ done[1].op = "keyDown" /\ done[2] = [done[1] EXCEPT !.op = "keyUp"]

\* C15 (as stated): from pressedModifiers = {}, keyDown(k, c, m) followed by
\* keyUp(k, c, m) with the same m leaves pressedModifiers = {}, for every m.
C15_DownUpLeavesNothing == DownThenUp => pressedModifiers = {}

\* C15 (amended): from pressedModifiers = {}, keyDown(k, c, m) followed by
\* keyUp(k, c, m) with the same m leaves pressed at most the modifier keys m
\* asks for, and exactly those when a page is attached and every dispatch
\* succeeded; the result is {} only for an m without modifiers.
C15_DownUpLeavesWanted ==
  DownThenUp =>
    /\ pressedModifiers \subseteq Wanted(done[1].m)
    /\ (sessionId # Null /\ ~cdpError) => pressedModifiers = Wanted(done[1].m)

C15_Witness ==
  /\ DownThenUp /\ sessionId # Null /\ ~cdpError
  /\ done[1].m = {"ctrl", "shift"} /\ pressedModifiers = {"Control", "Shift"}

\* C16: no primary key event reaches a page session with a modifier flag set
\* (alt 1, ctrl 2, meta 4, shift 8) unless that session has been sent the
\* keyDown of the corresponding modifier key and not yet its keyUp.
C16_FlagsFollowModifierKeys ==
  (/\ wire # <<>>
   /\ Head(wire).method = "Input.dispatchKeyEvent"
   /\ Head(wire).key \notin MODIFIER_KEYS
   /\ BrowserOk(Head(wire)))
    => \A k \in FlagKeys(Head(wire).modifiers) : <<Head(wire).sid, k>> \in keysDown

\* C29: every synthesized modifier key event carries the flag bitmap of the
\* other modifiers tracked as pressed at that moment (for a keyDown those
\* pressed before it, for a keyUp those still pressed after it), for Control
\* as for Alt and Shift.
C29_ModifierEventFlags ==
  [][\A i \in (Len(sent) + 1)..Len(sent') :
       (sent'[i].method = "Input.dispatchKeyEvent" /\ sent'[i].key \in MODIFIER_KEYS)
         => LET others == pressedModifiers' \ {sent'[i].key}
            IN sent'[i].modifiers =
                 (IF "Alt" \in others THEN 1 ELSE 0)
                   + (IF "Control" \in others THEN 2 ELSE 0)
                   + (IF "Shift" \in others THEN 8 ELSE 0)]_vars

\* the four calls of scenario S3 were made, a page is attached, nothing failed
S3Ran ==
  /\ CallReturned /\ sessionId # Null /\ ~cdpError
  /\ done = << KeyCall("keyDown", "a", {"ctrl"}), KeyCall("keyDown", "c", {"ctrl"}),
               KeyCall("keyUp", "c", {"ctrl"}), KeyCall("keyUp", "a", {}) >>

\* C17: scenario S3: from pressedModifiers = {}, keyDown(a, {ctrl}),
\* keyDown(c, {ctrl}), keyUp(c, {ctrl}), keyUp(a, {}) made one after the other
\* write exactly Control keyDown (flags 0), a keyDown (2), char a (2),
\* c keyDown (2), char c (2), c keyUp (2), a keyUp (0), Control keyUp (0), in
\* this order, and end with pressedModifiers = {}.
C17_ScenarioS3 ==
  S3Ran =>
    /\ KeyLog = << <<"keyDown", "Control", 0>>, <<"keyDown", "a", 2>>, <<"char", "a", 2>>,
                   <<"keyDown", "c", 2>>, <<"char", "c", 2>>, <<"keyUp", "c", 2>>,
                   <<"keyUp", "a", 0>>, <<"keyUp", "Control", 0>> >>
    /\ \A i \in 1..Len(sent) : sent[i].method = "Input.dispatchKeyEvent" /\ sent[i].sid = sessionId
    /\ pressedModifiers = {}

C17_Witness == S3Ran /\ Len(sent) = 8 /\ pressedModifiers = {}

\* C18: once the CDP channel has dropped the viewers have been sent
\* browser:error, and every action invoked after the drop is answered with the
\* error "Browser not connected", never with success.
C18_DropIsReported ==
  /\ (transport = "closed" /\ call.op = "idle")
       => \E i \in 1..Len(emitted) : emitted[i].event = "browser:error"
  /\ \A i \in 1..Len(replies) :
       replies[i].late
         => ~replies[i].success /\ replies[i].message = "Browser not connected"

\* C19: the reply to a request-reply action one of whose CDP calls failed is
\* {success: false, message}, never {success: true}.
C19_FailedCallIsAnError ==
  \A i \in 1..Len(replies) : replies[i].failed => ~replies[i].success

\* C26: when DOM.getBoxModel answers a click with no model or no content, the
\* click dispatches no mouse event and browser:click is answered
\* {success: false} with the message "Element with backendNodeId <n> not found
\* or has no box model"; when the
\* content quad is there, one mousePressed and then one mouseReleased (left
\* button, clickCount 1) are dispatched at the mean of its four corners.
C26_ClickAtCenterOrError ==
  (/\ Len(done) = 1 /\ done[1].op = "click"
   /\ call.op = "idle" /\ ~cdpError
   /\ \E i \in 1..Len(sent) : sent[i].method = "DOM.getBoxModel")
    => LET box == getBoxModel(done[1].key)
           q == box.content
           mice == SelectSeq(sent, LAMBDA c : c.method = "Input.dispatchMouseEvent")
       IN IF ~box.model \/ ~box.hasContent
          THEN /\ mice = <<>>
               /\ Len(replies) = 1 /\ ~replies[1].success
               /\ replies[1].message = "Element with backendNodeId " \o done[1].key
                                         \o " not found or has no box model"
          ELSE /\ Len(mice) = 2
               /\ mice[1].type = "mousePressed" /\ mice[2].type = "mouseReleased"
               /\ \A i \in 1..2 :
                    /\ 4 * mice[i].mouse[1] = q[1] + q[3] + q[5] + q[7]
                    /\ 4 * mice[i].mouse[2] = q[2] + q[4] + q[6] + q[8]
                    /\ mice[i].mouse[3] = "left" /\ mice[i].mouse[4] = 1

\* a click on the skewed quad and one on an element without content have
\* returned
C26_Witness ==
  /\ Len(done) = 2 /\ done[1].op = "click" /\ done[2].op = "click"
  /\ done[1].key = "skew" /\ done[2].key = "nocontent"
  /\ call.op = "idle" /\ ~cdpError
  /\ Len(replies) = 2 /\ replies[1].success /\ ~replies[2].success
  /\ Len(SelectSeq(sent, LAMBDA c : c.method = "Input.dispatchMouseEvent")) = 2

(* ======================================================================= *)
(* Overlapping keyboard input: the handlers of ViewerClient are invoked    *)
(* for each socket event as it arrives, so a keyDown or keyUp of the       *)
(* session may start while another is suspended at an await.  The frames   *)
(* of the calls are tasks[1..MaxTasks]; each awaits the answer to the      *)
(* command it has written.                                                 *)
(* ======================================================================= *)
MaxOverlapCalls == 3

\* the command of frame t
OfFrame(calls, t) == [i \in 1..Len(calls) |-> [calls[i] EXCEPT !.task = t]]

\* the state after one synchronous stretch r of frame t
RanFrame(t, r, popped) ==
  /\ tasks' = [tasks EXCEPT ![t] = r.call]
  /\ pressedModifiers' = r.pressed
  /\ wire' = SubSeq(wire, popped + 1, Len(wire)) \o OfFrame(r.calls, t)
  /\ sent' = sent \o OfFrame(r.calls, t)
  /\ emitted' = emitted \o r.emits
  /\ replies' = replies \o r.reply

\* ViewerClient.handleKeyDown / handleKeyUp: a socket event arrives and its
\* call runs to its first await, whatever the other calls are doing
OverlapInvoke(t, item) ==
  /\ viewerClients # {}
  /\ tasks[t].op = "idle"
  /\ Len(done) < MaxOverlapCalls
  /\ done' = Append(done, item)
  /\ LET F == [CallIdle EXCEPT !.op = item.op, !.key = item.key, !.m = item.m]
     IN RanFrame(t, IF item.op = "keyDown" THEN keyDown(F, pressedModifiers)
                    ELSE keyUp(F, pressedModifiers), 0)
  /\ UNCHANGED <<browserClient, sessionId, targetId, viewerClients, apiClients,
                 screencastStarted, listening, phase, transport, targets, blank,
                 front, attached, nextSid, nextTarget, cdpError>>
  /\ UNCHANGED <<casting, keysDown, call, script>>
  /\ UNCHANGED <<registryVars, eventVars, snapVars, poolVars>>

\* the browser answers the oldest command; the frame that awaits it resumes
OverlapReply(t) ==
  /\ wire # <<>>
  /\ Head(wire).task = t
  /\ tasks[t].op # "idle"
  /\ BrowserStep(Head(wire))
  /\ keysDown' = KeyboardAfter(Head(wire))
  /\ RanFrame(t, Resumed(tasks[t], pressedModifiers, Ok), 1)
  /\ UNCHANGED <<browserClient, sessionId, targetId, viewerClients, apiClients,
                 screencastStarted, listening, phase>>
  /\ UNCHANGED <<casting, call, script, done>>
  /\ UNCHANGED <<registryVars, eventVars, snapVars, poolVars>>

\* a live session with its viewers, attached to a page
InitOverlap ==
  /\ browserClient = TRUE /\ listening = TRUE /\ phase = "live"
  /\ transport = "open" /\ targets = {1} /\ nextTarget = 2
  /\ blank = {} /\ front = 1 /\ cdpError = FALSE
  /\ sessionId = 1 /\ targetId = 1
  /\ attached = {[sid |-> 1, target |-> 1, by |-> "cp_attachToTarget"]}
  /\ screencastStarted = TRUE /\ casting = {1}
  /\ nextSid = 2
  /\ viewerClients = ViewerIds /\ apiClients = {}
  /\ tasks = [t \in TaskIds |-> CallIdle] /\ wire = <<>>
  /\ sent = <<>> /\ emitted = <<>> /\ replies = <<>>
  /\ pressedModifiers = {} /\ call = CallIdle /\ keysDown = {}
  /\ script = <<>> /\ done = <<>>
  /\ EventsIdle /\ SnapIdle /\ PoolIdle
  /\ RegistryIdle

NextOverlap ==
  \/ \E t \in TaskIds, item \in KeyInputs({"a"}, SUBSET {"ctrl", "shift"}) :
       OverlapInvoke(t, item)
  \/ \E t \in TaskIds : OverlapReply(t)

SpecOverlap == InitOverlap /\ [][NextOverlap]_vars

(* ================= properties of overlapping keyboard input ============ *)
\* the keyDown and keyUp events of modifier key k written to the WebSocket
ModifierLog(k) == SelectSeq(sent, LAMBDA c : c.key = k /\ c.type \in {"keyDown", "keyUp"})

\* C37: for each modifier key (Control, Alt, Shift), the keyDown and keyUp
\* events written to the WebSocket alternate, starting with keyDown, also
\* when keyDown and keyUp calls overlap in time.
C37_ModifierEventsAlternate ==
  \A k \in MODIFIER_KEYS :
    \A i \in 1..Len(ModifierLog(k)) :
      ModifierLog(k)[i].type = (IF i % 2 = 1 THEN "keyDown" ELSE "keyUp")

(* ========================= compressed snapshot ========================= *)
MaxNodes == 3
MaxBackend == 1

\* a node without backendDOMNodeId
Undefined == -1

\* the AX nodes: nodeId "1".."3", in the order of the array
AXNodeIds == [i \in 1..MaxNodes |-> ToString(i)]
AXRoles == {"button", "Ignored"}
BackendIds == {Undefined} \cup (0..MaxBackend)

\* the arrays of AX nodes: node 1 is the root and every later node is a child
\* of an earlier one; childIds lists the children in the order of the array
AXTrees ==
  UNION {
    UNION {
      { [i \in 1..n |->
           [nodeId |-> AXNodeIds[i],
            childIds |-> SelectSeq(SubSeq(AXNodeIds, 1, n),
                                   LAMBDA id : \E k \in 2..n :
                                                 AXNodeIds[k] = id /\ parent[k] = i),
            role |-> look[i][1], ignored |-> look[i][2],
            backendDOMNodeId |-> look[i][3]]] :
        look \in [1..n -> AXRoles \X BOOLEAN \X BackendIds] }
      : parent \in {f \in [1..n -> 0..n] : \A k \in 1..n : f[k] < k /\ (k > 1 => f[k] > 0)} }
    : n \in 1..MaxNodes }

\* `backendNodeId ? ... : ...`, line 900: undefined and 0 are falsy
Truthy(b) == b # Undefined /\ b # 0

RECURSIVE Repeat(_, _)
Repeat(str, count) == IF count = 0 THEN "" ELSE str \o Repeat(str, count - 1)

\* nodeMap.get(nodeId): the nodes of that id (none or one)
NodesOf(nodes, nodeId) == SelectSeq(nodes, LAMBDA nd : nd.nodeId = nodeId)

\* formatNodeLine, lines 871-933, of a node without name and properties: no
\* line (null) for an ignored node
formatNodeLine(node, depth) ==
  IF node.role = "Ignored" \/ node.ignored THEN <<>>
  ELSE LET backendNodeId == node.backendDOMNodeId
           indent == Repeat("  ", depth)
           uid == IF Truthy(backendNodeId)
                  THEN ToString(depth) \o "_" \o ToString(backendNodeId)
                  ELSE node.nodeId
       IN << indent \o "uid=" \o uid \o " " \o node.role >>

\* buildCompressedTree, lines 844-865; the loop over the children is
\* buildChildren
RECURSIVE buildCompressedTree(_, _, _)
RECURSIVE buildChildren(_, _, _)
buildChildren(children, depth, nodes) ==
  IF children = <<>> THEN <<>>
  ELSE buildCompressedTree(Head(children), depth, nodes)
         \o buildChildren(Tail(children), depth, nodes)

buildCompressedTree(nodeId, depth, nodes) ==
  LET found == NodesOf(nodes, nodeId) IN
  IF found = <<>> THEN <<>>
  ELSE formatNodeLine(found[1], depth)
         \o buildChildren(found[1].childIds, depth + 1, nodes)

\* compressAXTreeToText, lines 812-839: the lines that are joined by "\n"
compressAXTreeToText(nodes) ==
  IF nodes = <<>> THEN <<>> ELSE buildCompressedTree(nodes[1].nodeId, 0, nodes)

\* getSnapshot, lines 794-797: the snapshot of the filtered nodes
getSnapshot ==
  /\ ~snapshot.taken
  /\ snapshot' = [taken |-> TRUE, lines |-> compressAXTreeToText(axTree)]
  /\ UNCHANGED <<axTree, sessionVars, registryVars, traceVars, keyVars, eventVars, poolVars>>

InitSnapshot ==
  /\ SessionIdle /\ RegistryIdle /\ TraceIdle /\ KeysIdle /\ EventsIdle /\ PoolIdle
  /\ axTree \in AXTrees
  /\ snapshot = [taken |-> FALSE, lines |-> <<>>]

NextSnapshot == getSnapshot

SpecSnapshot == InitSnapshot /\ [][NextSnapshot]_vars

(* ===================== properties of the snapshot ====================== *)
Range(seq) == {seq[j] : j \in 1..Len(seq)}

\* the depth of node i of the array in its tree
RECURSIVE DepthOf(_, _)
DepthOf(nodes, i) ==
  IF \A k \in 1..Len(nodes) : nodes[i].nodeId \notin Range(nodes[k].childIds) THEN 0
  ELSE 1 + DepthOf(nodes, CHOOSE k \in 1..Len(nodes) :
                            nodes[i].nodeId \in Range(nodes[k].childIds))

\* C27: every line of the compressed snapshot is the line of a rendered node,
\* indented by 2*D spaces and carrying uid=D_B, where D is the depth of the
\* node in the tree and B its backendDOMNodeId, also for a node whose
\* backendDOMNodeId is missing or zero.
C27_UidIsDepthAndBackendId ==
  snapshot.taken =>
    \A l \in 1..Len(snapshot.lines) :
      \E i \in 1..Len(axTree) :
        /\ axTree[i].backendDOMNodeId # Undefined
        /\ snapshot.lines[l] =
             Repeat(" ", 2 * DepthOf(axTree, i)) \o "uid="
               \o ToString(DepthOf(axTree, i)) \o "_"
               \o ToString(axTree[i].backendDOMNodeId) \o " " \o axTree[i].role

(* ======================= interesting-only filter ======================= *)
MaxFilterNodes == 2

CONTROL_ROLES ==
  {"button", "checkbox", "combobox", "listbox", "menu", "menubar", "menuitem",
   "menuitemcheckbox", "menuitemradio", "option", "progressbar", "radio",
   "scrollbar", "searchbox", "slider", "spinbutton", "switch", "tab",
   "tablist", "textbox", "tree", "treeitem", "link", "gridcell"}

LANDMARK_ROLES ==
  {"banner", "complementary", "contentinfo", "form", "main", "navigation",
   "region", "search"}

LEAF_ROLES ==
  {"textbox", "searchbox", "image", "progressbar", "slider", "separator",
   "meter", "scrollbar", "spinbutton"}

\* the roles, names and live settings the nodes are drawn from; "" stands for
\* a property that is absent
FilterRoles == {"button", "main", "heading", "StaticText", "generic"}
NodeNames == {"", "n"}
LiveValues == {"", "off", "polite"}

\* what getNodeProperty resolves for a node, lines 1170-1181
NodeLooks == FilterRoles \X BOOLEAN \X BOOLEAN \X BOOLEAN \X BOOLEAN \X LiveValues \X NodeNames

\* the array of n AX nodes with their properties: node 1 is the root and
\* node k > 1 is a child of node parent[k]
FilterTree(n, parent, look) ==
  [i \in 1..n |->
     [nodeId |-> AXNodeIds[i],
      childIds |-> SelectSeq(SubSeq(AXNodeIds, 1, n),
                             LAMBDA id : \E k \in 2..n :
                                           AXNodeIds[k] = id /\ parent[k] = i),
      role |-> look[i][1], ignored |-> look[i][2],
      focusable |-> look[i][3], editable |-> look[i][4], modal |-> look[i][5],
      live |-> look[i][6], name |-> look[i][7], description |-> ""]]

\* every later node is a child of an earlier one
FilterParents(n) ==
  {f \in [1..n -> 0..n] : \A k \in 1..n : f[k] < k /\ (k > 1 => f[k] > 0)}

\* isLeafNode, lines 1135-1164
isLeafNode(node, nodes) ==
  \/ node.role \in LEAF_ROLES
  \/ node.childIds = <<>>
  \/ \A j \in 1..Len(node.childIds) :
       LET child == NodesOf(nodes, node.childIds[j]) IN
       \/ child = <<>>
       \/ child[1].ignored
       \/ child[1].role \in {"StaticText", "text", "none"}

\* isInterestingNode, lines 1066-1130, test by test
isInterestingNode(node, nodes, insideControl) ==
  IF node.role = "Ignored" \/ node.ignored THEN FALSE
  ELSE IF node.role \in LANDMARK_ROLES THEN TRUE
  ELSE IF node.role \in CONTROL_ROLES THEN TRUE
  ELSE IF node.focusable \/ node.editable \/ node.modal
            \/ (node.live # "" /\ node.live # "off") THEN TRUE
  ELSE IF node.role = "heading" /\ node.name # "" THEN TRUE
  ELSE IF insideControl /\ ~node.focusable THEN FALSE
  ELSE IF isLeafNode(node, nodes) /\ (node.name # "" \/ node.description # "") THEN TRUE
  ELSE IF node.role = "image" /\ node.name # "" THEN TRUE
  ELSE IF node.role \in {"StaticText", "text"} /\ node.name # "" THEN TRUE
  ELSE FALSE

\* getParent, lines 1027-1035: the first node that lists id among its children
ParentsOf(nodes, id) == SelectSeq(nodes, LAMBDA nd : id \in Range(nd.childIds))

\* markAncestorsInteresting, lines 1049-1060
RECURSIVE markAncestorsInteresting(_, _, _)
markAncestorsInteresting(nodeId, nodes, interestingIds) ==
  LET parents == ParentsOf(nodes, nodeId) IN
  IF parents = <<>> \/ parents[1].nodeId \in interestingIds THEN interestingIds
  ELSE markAncestorsInteresting(parents[1].nodeId, nodes,
                                interestingIds \cup {parents[1].nodeId})

\* collectInterestingNodes, lines 1008-1044; the loop over the children is
\* collectChildren
RECURSIVE collectInterestingNodes(_, _, _, _)
RECURSIVE collectChildren(_, _, _, _)
collectChildren(children, nodes, interestingIds, insideControl) ==
  IF children = <<>> THEN interestingIds
  ELSE collectChildren(Tail(children), nodes,
                       collectInterestingNodes(Head(children), nodes, interestingIds,
                                               insideControl),
                       insideControl)

collectInterestingNodes(nodeId, nodes, interestingIds, insideControl) ==
  LET found == NodesOf(nodes, nodeId) IN
  IF found = <<>> THEN interestingIds
  ELSE LET node == found[1]
           ids == IF isInterestingNode(node, nodes, insideControl)
                  THEN markAncestorsInteresting(nodeId, nodes, interestingIds \cup {nodeId})
                  ELSE interestingIds
       IN collectChildren(node.childIds, nodes, ids,
                          insideControl \/ node.role \in CONTROL_ROLES)

\* filterInterestingNodes, lines 968-1003: the interesting nodes in the order
\* of the array, their childIds pruned (an empty list stands for a deleted one)
filterInterestingNodes(nodes) ==
  LET interestingNodeIds ==
        IF nodes = <<>> THEN {}
        ELSE collectInterestingNodes(nodes[1].nodeId, nodes, {}, FALSE)
      kept == SelectSeq(nodes, LAMBDA nd : nd.nodeId \in interestingNodeIds)
  IN [i \in 1..Len(kept) |->
        [kept[i] EXCEPT !.childIds = SelectSeq(@, LAMBDA id : id \in interestingNodeIds)]]

\* getSnapshot(interestingOnly = true, compressed = false), lines 789-799
getSnapshotNodes ==
  /\ ~snapshot.taken
  /\ snapshot' = [taken |-> TRUE, lines |-> filterInterestingNodes(axTree)]
  /\ UNCHANGED <<axTree, sessionVars, registryVars, traceVars, keyVars, eventVars, poolVars>>

InitFilter ==
  /\ SessionIdle /\ RegistryIdle /\ TraceIdle /\ KeysIdle /\ EventsIdle /\ PoolIdle
  /\ \E n \in 1..MaxFilterNodes :
       \E parent \in FilterParents(n), look \in [1..n -> NodeLooks] :
         axTree = FilterTree(n, parent, look)
  /\ snapshot = [taken |-> FALSE, lines |-> <<>>]

NextFilter == getSnapshotNodes

SpecFilter == InitFilter /\ [][NextFilter]_vars

(* ====================== properties of the filter ======================= *)
\* node i of the array has an ancestor with a control role
RECURSIVE InsideControl(_, _)
InsideControl(nodes, i) ==
  LET parents == ParentsOf(nodes, nodes[i].nodeId) IN
  /\ parents # <<>>
  /\ \/ parents[1].role \in CONTROL_ROLES
     \/ InsideControl(nodes, CHOOSE k \in 1..Len(nodes) : nodes[k] = parents[1])

\* the ids of the nodes the filter has kept
KeptIds == {snapshot.lines[j].nodeId : j \in 1..Len(snapshot.lines)}

\* C35: a node that is not ignored and not focusable and has an ancestor
\* with a control role is classified interesting by its own properties only
\* if its role is a landmark or a control role; otherwise (a named heading,
\* an editable, modal or live node) the filter keeps it only as an ancestor of
\* a node it keeps.
C35_InsideControlOnlyControlsAndLandmarks ==
  snapshot.taken =>
    \A i \in 1..Len(axTree) :
      LET node == axTree[i] IN
      /\ ~(node.role = "Ignored" \/ node.ignored)
      /\ ~node.focusable
      /\ InsideControl(axTree, i)
      /\ node.role \notin LANDMARK_ROLES \cup CONTROL_ROLES
      => /\ ~isInterestingNode(node, axTree, TRUE)
         /\ node.nodeId \in KeptIds => \E j \in 1..Len(node.childIds) :
                                         node.childIds[j] \in KeptIds

(* ======================================================================= *)
(* BrowserManager: the pool of launched browsers (browser-manager-server). *)
(* Each action is one synchronous stretch of start() or stop() between two *)
(* awaits, with the route handler that called it. poolCalls is the list of *)
(* requests made so far: pc is "launch" while start() awaits               *)
(* puppeteer.launch, "close" while stop() awaits the race of close() and   *)
(* the timer, "done" once the route has answered.                          *)
(* ======================================================================= *)
MaxPoolCalls == 4

\* MAX_BROWSERS = Number(process.env.MAX_BROWSERS) || 10, here configured to 2
MAX_BROWSERS == 2

PoolTokens == 1..MaxPoolCalls

\* the token field of a POST /stop body: 0 stands for a body without token
StopTokens == 0..MaxPoolCalls

CloseOutcomes == {"closed", "threw", "timeout"}

LimitReached == "Max browser limit (" \o ToString(MAX_BROWSERS) \o ") reached"

PoolCall(op, pc, token, how, status, message) ==
  [op |-> op, pc |-> pc, token |-> token, how |-> how,
   status |-> status, message |-> message]

\* POST /start up to the await of puppeteer.launch, or to the 500 answer
startBrowser ==
  /\ Len(poolCalls) < MaxPoolCalls
  /\ IF Cardinality(browserMap) >= MAX_BROWSERS
       THEN /\ poolCalls' = Append(poolCalls,
                 PoolCall("start", "done", 0, "", 500, "Error: " \o LimitReached))
            /\ UNCHANGED nextToken
       ELSE /\ poolCalls' = Append(poolCalls,
                 PoolCall("start", "launch", nextToken, "", 0, ""))
            /\ nextToken' = nextToken + 1
  /\ UNCHANGED <<browserMap, running>>
  /\ UNCHANGED <<sessionVars, registryVars, traceVars, keyVars, eventVars, snapVars>>

\* puppeteer.launch settles: the browser is registered, or start() throws
launchSettles(c, ok) ==
  /\ c \in 1..Len(poolCalls) /\ poolCalls[c].pc = "launch"
  /\ LET tok == poolCalls[c].token IN
     IF ok
       THEN /\ browserMap' = browserMap \cup {tok}
            /\ running' = running \cup {tok}
            /\ poolCalls' = [poolCalls EXCEPT ![c].pc = "done", ![c].status = 200]
       ELSE /\ poolCalls' = [poolCalls EXCEPT ![c].pc = "done", ![c].status = 500,
                                              ![c].message = "Error: launch failed"]
            /\ UNCHANGED <<browserMap, running>>
  /\ UNCHANGED nextToken
  /\ UNCHANGED <<sessionVars, registryVars, traceVars, keyVars, eventVars, snapVars>>

\* POST /stop up to the await of the race, or to the 400 or 404 answer
stopBrowser(tok) ==
  /\ Len(poolCalls) < MaxPoolCalls
  /\ poolCalls' = Append(poolCalls,
       IF tok = 0
         THEN PoolCall("stop", "done", tok, "", 400, "token is required")
         ELSE IF tok \notin browserMap
           THEN PoolCall("stop", "done", tok, "", 404, "Error: Browser not found")
           ELSE PoolCall("stop", "close", tok, "", 0, ""))
  /\ UNCHANGED <<browserMap, running, nextToken>>
  /\ UNCHANGED <<sessionVars, registryVars, traceVars, keyVars, eventVars, snapVars>>

\* the entries of browserMap once the try statement of stop() is left
AfterCloseNoFinally(map, tok, how) == IF how = "closed" THEN map \ {tok} ELSE map

\* the entries of browserMap once the try statement of stop() is left
AfterClose(map, tok, how) == map \ {tok}

\* the race of stop() settles: close() resolved, close() threw, or the timer
\* fired first; in the last two cases the process is killed if there is one
closeSettles(c, how, killed) ==
  /\ c \in 1..Len(poolCalls) /\ poolCalls[c].pc = "close"
  /\ LET tok == poolCalls[c].token IN
     /\ how = "closed" => killed
     /\ running' = IF killed THEN running \ {tok} ELSE running
     /\ browserMap' = AfterClose(browserMap, tok, how)
     /\ poolCalls' = [poolCalls EXCEPT ![c].pc = "done", ![c].how = how,
                                       ![c].status = 200]
  /\ UNCHANGED nextToken
  /\ UNCHANGED <<sessionVars, registryVars, traceVars, keyVars, eventVars, snapVars>>

\* the 'disconnected' listener of a launched browser
disconnected(tok) ==
  /\ tok \in running
  /\ running' = running \ {tok}
  /\ browserMap' = browserMap \ {tok}
  /\ UNCHANGED <<poolCalls, nextToken>>
  /\ UNCHANGED <<sessionVars, registryVars, traceVars, keyVars, eventVars, snapVars>>

InitPool ==
  /\ SessionIdle /\ RegistryIdle /\ TraceIdle /\ KeysIdle /\ EventsIdle /\ SnapIdle
  /\ PoolIdle

NextPool ==
  \/ startBrowser
  \/ \E c \in 1..MaxPoolCalls, ok \in BOOLEAN : launchSettles(c, ok)
  \/ \E tok \in StopTokens : stopBrowser(tok)
  \/ \E c \in 1..MaxPoolCalls, how \in CloseOutcomes, killed \in BOOLEAN :
       closeSettles(c, how, killed)
  \/ \E tok \in PoolTokens : disconnected(tok)

SpecPool == InitPool /\ [][NextPool]_vars

(* ==================== properties of the browser pool =================== *)
\* C39: browserMap never holds more than MAX_BROWSERS browsers, whatever the
\* overlap of the start() calls, and a start() made at the limit fails with
\* "Max browser limit (N) reached".
C39_PoolWithinLimit == Cardinality(browserMap) <= MAX_BROWSERS

\* the stop() call c settles in this step
StopSettles(c) ==
  /\ c \in 1..Len(poolCalls) /\ poolCalls[c].pc = "close"
  /\ poolCalls'[c].pc = "done"

\* C40: when stop(token) of a registered token settles, the token is absent
\* from browserMap and the call resolved (close() resolved, threw or timed
\* out); stop of an unregistered token fails with "Browser not found" and
\* leaves browserMap unchanged; a 'disconnected' event removes the token.
C40_StopRemovesToken ==
  /\ [][\A c \in 1..MaxPoolCalls : StopSettles(c) =>
          /\ poolCalls[c].token \notin browserMap'
          /\ poolCalls'[c].how \in CloseOutcomes
          /\ poolCalls'[c].status = 200 /\ poolCalls'[c].message = ""]_vars
  /\ [][Len(poolCalls') > Len(poolCalls) =>
          LET new == poolCalls'[Len(poolCalls')] IN
          new.op = "stop" /\ new.token # 0 =>
            IF new.token \in browserMap
              THEN new.pc = "close"
              ELSE /\ new.pc = "done" /\ new.status = 404
                   /\ new.message = "Error: Browser not found"
                   /\ browserMap' = browserMap]_vars
  /\ [][\A tok \in PoolTokens :
          tok \in running /\ tok \notin running' => tok \notin browserMap']_vars
  /\ [](\A c \in 1..Len(poolCalls) :
          poolCalls[c].op = "stop" /\ poolCalls[c].pc = "done"
            /\ poolCalls[c].status = 200
          => poolCalls[c].token \notin browserMap)

\* a stop() has settled after the timer fired and its token is gone, and a
\* stop of a token that is not registered was refused
C40_Witness ==
  /\ \E c \in 1..Len(poolCalls) :
       /\ poolCalls[c].op = "stop" /\ poolCalls[c].pc = "done"
       /\ poolCalls[c].how = "timeout" /\ poolCalls[c].status = 200
       /\ poolCalls[c].token \notin browserMap
  /\ \E c \in 1..Len(poolCalls) :
       /\ poolCalls[c].op = "stop" /\ poolCalls[c].status = 404
       /\ poolCalls[c].message = "Error: Browser not found"

====
